---------------------------- MODULE Spec2Model ----------------------------
(***************************************************************************)
(* Verification model of the stock-screening pipeline:                     *)
(*   - the backtest engine (backtest/backtest-engine: BaseStrategy,        *)
(*     MACrossStrategy, BacktestEngine._simulate, _calculateMaxDrawdown),  *)
(*   - the composite scorer and the screener engine                        *)
(*     (screener/three-dimensional-screener).                              *)
(*                                                                         *)
(* Numbers.  The JavaScript code computes in floating point; the model     *)
(* computes the same expressions exactly, in scaled integers:              *)
(*   - a bar's close and high are whole currency units;                    *)
(*   - rates (slippage, commission, tax, positionSize, stopLoss, ...) are  *)
(*     whole percents, so the rate r of the code is rPct / 100;            *)
(*   - entryPrice and exitPrice are kept in hundredths of a unit;          *)
(*   - capital, proceeds and the unrounded cost are kept in tenths of a    *)
(*     unit (shares are multiples of 1000, which makes tenths exact);      *)
(*   - position.cost, pnl and the equity points are whole units, as        *)
(*     Math.round leaves them; returnPct is in hundredths of a percent.    *)
(***************************************************************************)
EXTENDS Integers, Sequences, FiniteSets, TLC

VARIABLES
    \* ---- BacktestEngine._simulate ----
    config,             \* this.config of the engine
    strategy,           \* the strategy instance (its parameters)
    data,               \* price history, chronological
    i,                  \* loop index of _simulate (0-based, as in the code)
    capital,            \* cash, in tenths
    position,           \* open position, or NoPosition (null)
    highestSinceEntry,
    trades,             \* the trade ledger
    equityCurve,
    btPc,               \* "idle" | "loop" | "done"
    opened,             \* history: entry dates of every position ever opened
    \* ---- calculateCompositeScore ----
    dims,               \* the three dimension scores passed in
    composite,          \* the result, or NoComposite
    \* ---- _calculateMaxDrawdown ----
    curve,              \* the equity curve passed in
    drawdown,           \* the result, or NoDrawdown
    \* ---- ThreeDimensionalScreener.run ----
    universe,           \* the database and the screener's config: per symbol,
                        \* what the queries return
    scPc,               \* "idle" | "load" | "filter" | "score" | "rank" | "done" | "failed"
    allSymbols,
    filtered,
    analyzed,
    k,                  \* position of the per-symbol loops
    signals,            \* rows _saveSignals has written to screener_signals
    results,            \* the object run() returns, or NoResults
    \* ---- two runs of the screener on dated records ----
    market,             \* the target date and the database of each run
    runNo,              \* 1 during the first run, 2 during the second
    previous,           \* what the first run returned
    \* ---- BacktestEngine.runBatch ----
    batch,              \* the symbols requested and what run() meets for each
    batchPc,            \* "idle" | "loop" | "sort" | "done"
    batchK,             \* position of the loop over the symbols
    batchResults,       \* the reports collected, then returned
    \* ---- scoreFundamental ----
    fundamentalData,    \* the snapshot passed in
    fundamentalResult,  \* the result, or NotComputed
    \* ---- calculatePerformance ----
    ledger,             \* the trades passed in
    performance,        \* the report, or NotComputed
    \* ---- Strategy.shouldEntry ----
    entryCase,          \* the strategy, the series and the index passed in
    entryResult,        \* what the rule answered, or NotComputed
    \* ---- scoreInstitutional ----
    institutionalData,  \* the rows passed in, most recent first
    institutionalResult,\* the result, or NotComputed
    \* ---- calculateMASystem ----
    maData,             \* the closes passed in, most recent first
    maSystem,           \* the result, or NotComputed
    \* ---- scoreTechnical ----
    technicalData,      \* the price rows and options passed in, most recent first
    technicalResult,    \* the result, or NotComputed
    \* ---- AdvancedAlertEngine.scan ----
    alertInput,         \* what the database holds for the symbols scanned, and the options
    alertResult,        \* the list scan returns
    \* ---- TWSERealtimeCrawler: concurrent fetchStock and fetchBatch calls ----
    crawlerConfig,      \* this.config of the crawler
    clock,              \* Date.now()
    lastRequestTime,    \* this.lastRequestTime
    requestCount,       \* this.requestCount
    calls,              \* the pending calls, each with its position in the code
    lastStart,          \* history - when the latest HTTP request was started, -1 before the first
    minGap,             \* history - the shortest time between two HTTP requests
                        \* (at most rateLimitMs), -1 before the second
    minAttemptGap       \* history - the same between two requests that
                        \* _fetchWithRetry sent, redirects left out

btVars  == <<config, strategy, data, i, capital, position, highestSinceEntry,
             trades, equityCurve, btPc, opened>>
cmpVars == <<dims, composite>>
ddVars  == <<curve, drawdown>>
scVars  == <<universe, scPc, allSymbols, filtered, analyzed, k, signals, results>>
\* The variables of the components added to the first four.
extVars == <<market, runNo, previous, batch, batchPc, batchK, batchResults,
             fundamentalData, fundamentalResult, ledger, performance,
             entryCase, entryResult, institutionalData, institutionalResult,
             maData, maSystem,
             technicalData, technicalResult,
             alertInput, alertResult,
             crawlerConfig, clock, lastRequestTime, requestCount, calls,
             lastStart, minGap, minAttemptGap>>
vars    == <<btVars, cmpVars, ddVars, scVars, extVars>>

--------------------------------------------------------------------------
(* Helpers *)

\* Math.round(n / d) for d > 0: the nearest integer, halves rounded up.
RoundDiv(n, d) == (2 * n + d) \div (2 * d)

Max(a, b) == IF a >= b THEN a ELSE b
Min(a, b) == IF a <= b THEN a ELSE b

\* [...data].reverse()
Reverse(s) == [j \in 1..Len(s) |-> s[Len(s) + 1 - j]]

Last(s) == s[Len(s)]

--------------------------------------------------------------------------
(* Bounds of the backtest inputs *)

MaxBars == 6

\* The bars a price history is drawn from: close, and high (0 = the field is
\* absent / falsy, so the code falls back to close).
BarKinds ==
    { [close |-> 8,  high |-> 0],
      [close |-> 10, high |-> 0],
      [close |-> 10, high |-> 12],
      [close |-> 12, high |-> 13] }

\* A history of n bars; the date of a bar is its day number.
Histories(n) ==
    { [j \in 1..n |-> [date |-> j, close |-> f[j].close, high |-> f[j].high]] :
        f \in [1..n -> BarKinds] }

\* Engine configurations { ...DEFAULT_CONFIG, ...config }, rates in percent.
ConfigA == [initialCapital |-> 25000, positionSize |-> 100, commission |-> 1,
            tax |-> 1, slippage |-> 1]
ConfigB == [initialCapital |-> 20300, positionSize |-> 100, commission |-> 1,
            tax |-> 1, slippage |-> 1]
ConfigC == [initialCapital |-> 9000, positionSize |-> 100, commission |-> 1,
            tax |-> 1, slippage |-> 1]
ConfigD == [initialCapital |-> 50000, positionSize |-> 50, commission |-> 1,
            tax |-> 1, slippage |-> 1]

\* new MACrossStrategy(params): exit parameters in percent.
StrategyDefault == [type |-> "MA_CROSS", shortPeriod |-> 1, longPeriod |-> 2,
                    stopLoss |-> 7, takeProfit |-> 15,
                    trailingStop |-> 3, trailingActivation |-> 10]
StrategyWide    == [type |-> "MA_CROSS", shortPeriod |-> 1, longPeriod |-> 2,
                    stopLoss |-> 7, takeProfit |-> 15,
                    trailingStop |-> 10, trailingActivation |-> 10]

Scenarios ==
    { <<ConfigA, StrategyDefault>>, <<ConfigA, StrategyWide>>,
      <<ConfigB, StrategyDefault>>, <<ConfigC, StrategyDefault>>,
      <<ConfigD, StrategyDefault>> }

--------------------------------------------------------------------------
(* Strategies *)

\* _sma(data, startIndex, period) * period: the sum the code divides by
\* period.  d is most-recent-first, startIndex is 0-based.
SmaSum(d, startIndex, period) ==
    LET hi == Min(startIndex + period, Len(d))
        RECURSIVE Sum(_)
        Sum(j) == IF j >= hi THEN 0 ELSE d[j + 1].close + Sum(j + 1)
    IN  Sum(startIndex)

\* MACrossStrategy.shouldEntry(data, index): golden cross between the
\* previous and the current bar.  a/p <= b/q is compared as a*q <= b*p.
MACrossShouldEntry(s, d, index) ==
    IF index + s.longPeriod + 1 >= Len(d) THEN FALSE
    ELSE LET shortMA     == SmaSum(d, index, s.shortPeriod)
             longMA      == SmaSum(d, index, s.longPeriod)
             prevShortMA == SmaSum(d, index + 1, s.shortPeriod)
             prevLongMA  == SmaSum(d, index + 1, s.longPeriod)
         IN  /\ prevShortMA * s.longPeriod <= prevLongMA * s.shortPeriod
             /\ shortMA * s.longPeriod > longMA * s.shortPeriod

\* _avgVolume(data, startIndex, period) * period.
AvgVolumeSum(d, startIndex, period) ==
    LET hi == Min(startIndex + period, Len(d))
        RECURSIVE Sum(_)
        Sum(j) == IF j >= hi THEN 0 ELSE d[j + 1].volume + Sum(j + 1)
    IN  Sum(startIndex)

\* VAOBreakoutStrategy.shouldEntry(data, index): today's volume above
\* volumeMultiple (in tenths) times the 5-bar average, and a price change
\* of at least priceChangeMin percent.
VAOBreakoutShouldEntry(s, d, index) ==
    IF index + 20 >= Len(d) THEN FALSE
    ELSE LET today       == d[index + 1]
             yesterday   == d[index + 2]
             avgVol5     == AvgVolumeSum(d, index, 5)
         IN  /\ today.volume * 5 * 10 > avgVol5 * s.volumeMultiple
             /\ IF yesterday.close > 0
                THEN (today.close - yesterday.close) * 100
                        >= s.priceChangeMin * yesterday.close
                ELSE 0 >= s.priceChangeMin

\* strategy.shouldEntry(data, index), by the class of the strategy.
shouldEntry(s, d, index) ==
    IF s.type = "VAO_BREAKOUT" THEN VAOBreakoutShouldEntry(s, d, index)
    ELSE MACrossShouldEntry(s, d, index)

\* The three conditions of BaseStrategy.shouldExit.  entryPrice is in
\* hundredths; currentReturn = (close - entryPrice) / entryPrice.
StopLossHit(s, pos, bar) ==
    (bar.close * 100 - pos.entryPrice) * 100 <= -(s.stopLoss * pos.entryPrice)

TakeProfitHit(s, pos, bar) ==
    (bar.close * 100 - pos.entryPrice) * 100 >= s.takeProfit * pos.entryPrice

TrailingHitUnarmed(s, pos, bar, highest) ==
    /\ highest > 0
    /\ (highest - bar.close) * 100 >= s.trailingStop * highest

TrailingHit(s, pos, bar, highest) ==
    /\ highest > 0
    /\ (highest * 100 - pos.entryPrice) * 100 >= s.trailingActivation * pos.entryPrice
    /\ (highest - bar.close) * 100 >= s.trailingStop * highest

\* BaseStrategy.shouldExit(position, currentBar, highestSinceEntry).  The
\* reason is the label the reason string starts with.
shouldExitSwapped(s, pos, bar, highest) ==
    IF TrailingHit(s, pos, bar, highest) THEN [exit |-> TRUE, reason |-> "trailingStop"]
    ELSE IF StopLossHit(s, pos, bar) THEN [exit |-> TRUE, reason |-> "stopLoss"]
    ELSE IF TakeProfitHit(s, pos, bar) THEN [exit |-> TRUE, reason |-> "takeProfit"]
    ELSE [exit |-> FALSE, reason |-> ""]

shouldExit(s, pos, bar, highest) ==
    IF StopLossHit(s, pos, bar) THEN [exit |-> TRUE, reason |-> "stopLoss"]
    ELSE IF TakeProfitHit(s, pos, bar) THEN [exit |-> TRUE, reason |-> "takeProfit"]
    ELSE IF TrailingHit(s, pos, bar, highest) THEN [exit |-> TRUE, reason |-> "trailingStop"]
    ELSE [exit |-> FALSE, reason |-> ""]


--------------------------------------------------------------------------
(* BacktestEngine._simulate *)

\* Shares are bought in whole lots ("整張 (1000股)").
LotSize == 1000

\* `let position = null`
NoPosition == [open |-> FALSE, entryDate |-> 0, entryPrice |-> 0,
               shares |-> 0, cost |-> 0]

\* `if (position) ... else ...`: the exit branch runs while a position is
\* open, the entry branch only while the engine is flat.
InPositionNever(pos) == FALSE

InPosition(pos) == pos.open

\* entryPrice = bar.close * (1 + slippage), in hundredths.
EntryPrice(cfg, bar) == bar.close * (100 + cfg.slippage)

\* shares = Math.floor(capital * positionSize / (entryPrice * 1000)) * 1000
\* (cap in tenths, entryPrice in hundredths).
SizeShares(cfg, cap, entryPrice) ==
    ((cap * cfg.positionSize) \div (entryPrice * 10 * LotSize)) * LotSize

\* cost = entryPrice * shares + entryPrice * shares * commission, in tenths.
EntryCost(cfg, entryPrice, shares) ==
    (entryPrice * shares * (100 + cfg.commission)) \div 1000

\* `if (cost > capital) continue;`
AffordableAlways(cost, cap) == TRUE

Affordable(cost, cap) == ~(cost > cap)

\* exitPrice = bar.close * (1 - slippage), in hundredths.
ExitPrice(cfg, bar) == bar.close * (100 - cfg.slippage)

\* proceeds = exitPrice * shares - sellCommission - sellTax, in tenths.
ExitProceeds(cfg, exitPrice, shares) ==
    (exitPrice * shares * (100 - cfg.commission - cfg.tax)) \div 1000

\* Forced close: exitPrice = lastBar.close, in hundredths (no slippage).
ForcedExitPriceSlipped(cfg, bar) == bar.close * (100 - cfg.slippage)

ForcedExitPrice(cfg, bar) == bar.close * 100

\* Forced close: proceeds = exitPrice * shares * (1 - commission - tax),
\* in tenths.
ForcedProceeds(cfg, exitPrice, shares) ==
    (exitPrice * shares * (100 - cfg.commission - cfg.tax)) \div 1000

\* The record pushed to trades: { ...position, exitDate, exitPrice, pnl,
\* returnPct, exitReason, holdingDays }.  pnl = proceeds - position.cost is
\* taken against the rounded cost; returnPct in hundredths of a percent.
MakeTrade(pos, bar, exitPrice, proceeds, reason) ==
    [entryDate   |-> pos.entryDate,
     entryPrice  |-> pos.entryPrice,
     shares      |-> pos.shares,
     cost        |-> pos.cost,
     exitDate    |-> bar.date,
     exitPrice   |-> exitPrice,
     pnl         |-> RoundDiv(proceeds - 10 * pos.cost, 10),
     returnPct   |-> RoundDiv((proceeds - 10 * pos.cost) * 1000, pos.cost),
     exitReason  |-> reason,
     holdingDays |-> bar.date - pos.entryDate]

\* equityCurve.push(Math.round(capital + (position ? shares * close : 0)))
EquityPoint(cap, pos, bar) ==
    RoundDiv(cap + (IF pos.open THEN 10 * pos.shares * bar.close ELSE 0), 10)

\* `highestSinceEntry = Math.max(highestSinceEntry, bar.high || bar.close)`
RaiseHighest(highest, bar) ==
    IF bar.high # 0 THEN Max(highest, bar.high) ELSE Max(highest, bar.close)

\* One iteration of the bar loop, the `continue` paths included.
SimulateBar ==
    /\ btPc = "loop"
    /\ i < Len(data)
    /\ LET bar           == data[i + 1]
           reversedData  == Reverse(data)
           reversedIndex == Len(data) - 1 - i
       IN
       IF InPosition(position)
       THEN LET highest    == RaiseHighest(highestSinceEntry, bar)
                exitResult == shouldExit(strategy, position, bar, highest)
                exitPrice  == ExitPrice(config, bar)
                proceeds   == ExitProceeds(config, exitPrice, position.shares)
            IN  IF exitResult.exit
                THEN /\ trades' = Append(trades,
                            MakeTrade(position, bar, exitPrice, proceeds,
                                      exitResult.reason))
                     /\ capital' = capital + proceeds
                     /\ position' = NoPosition
                     /\ highestSinceEntry' = 0
                     /\ equityCurve' = Append(equityCurve,
                            EquityPoint(capital + proceeds, NoPosition, bar))
                     /\ UNCHANGED opened
                ELSE /\ highestSinceEntry' = highest
                     /\ equityCurve' = Append(equityCurve,
                            EquityPoint(capital, position, bar))
                     /\ UNCHANGED <<trades, capital, position, opened>>
       ELSE IF shouldEntry(strategy, reversedData, reversedIndex)
            THEN LET entryPrice == EntryPrice(config, bar)
                     shares     == SizeShares(config, capital, entryPrice)
                     cost       == EntryCost(config, entryPrice, shares)
                     newPos     == [open       |-> TRUE,
                                    entryDate  |-> bar.date,
                                    entryPrice |-> entryPrice,
                                    shares     |-> shares,
                                    cost       |-> RoundDiv(cost, 10)]
                 IN  IF shares <= 0 \/ ~Affordable(cost, capital)
                     THEN \* `continue`: the rest of the iteration is skipped
                          UNCHANGED <<trades, capital, position,
                                      highestSinceEntry, equityCurve, opened>>
                     ELSE /\ capital' = capital - cost
                          /\ highestSinceEntry' =
                                IF bar.high # 0 THEN bar.high ELSE bar.close
                          /\ position' = newPos
                          /\ opened' = Append(opened, bar.date)
                          /\ equityCurve' = Append(equityCurve,
                                EquityPoint(capital - cost, newPos, bar))
                          /\ UNCHANGED trades
            ELSE /\ equityCurve' = Append(equityCurve,
                        EquityPoint(capital, position, bar))
                 /\ UNCHANGED <<trades, capital, position,
                                highestSinceEntry, opened>>
    /\ i' = i + 1
    /\ UNCHANGED <<config, strategy, data, btPc>>
    /\ UNCHANGED <<cmpVars, ddVars, scVars, extVars>>

\* After the loop: the forced close of a position still open, and the return.
ForceClose ==
    /\ btPc = "loop"
    /\ i = Len(data)
    /\ IF position.open /\ Len(data) > 0
       THEN LET lastBar   == data[Len(data)]
                exitPrice == ForcedExitPrice(config, lastBar)
                proceeds  == ForcedProceeds(config, exitPrice, position.shares)
            IN  trades' = Append(trades,
                    MakeTrade(position, lastBar, exitPrice, proceeds,
                              "forcedClose"))
       ELSE UNCHANGED trades
    /\ btPc' = "done"
    /\ UNCHANGED <<config, strategy, data, i, capital, position,
                   highestSinceEntry, equityCurve, opened>>
    /\ UNCHANGED <<cmpVars, ddVars, scVars, extVars>>

--------------------------------------------------------------------------
(* Idle values of the components a specification does not exercise *)

NoComposite == [totalScore |-> 0, tier |-> "", recommendation |-> ""]
NoDrawdown  == [computed |-> FALSE, maxDrawdown |-> 0, pctNum |-> 0, pctDen |-> 1]
NoUniverse  == [rows |-> <<>>, loadFails |-> FALSE, saveFails |-> FALSE,
                config |-> [minAvgVolume |-> 0, minPrice |-> 0, topN |-> 0]]
NoResults   == [tier1 |-> <<>>, tier2 |-> <<>>, tier3 |-> <<>>, topN |-> <<>>,
                summary |-> [totalMarket |-> 0, afterFilter |-> 0,
                             analyzed |-> 0, tier1Count |-> 0,
                             tier2Count |-> 0, tier3Count |-> 0]]

BtIdle ==
    /\ config = ConfigA /\ strategy = StrategyDefault /\ data = <<>>
    /\ i = 0 /\ capital = 0 /\ position = NoPosition /\ highestSinceEntry = 0
    /\ trades = <<>> /\ equityCurve = <<>> /\ btPc = "idle" /\ opened = <<>>

CmpIdle == dims = <<0, 0, 0>> /\ composite = NoComposite

DdIdle == curve = <<>> /\ drawdown = NoDrawdown

ScIdle ==
    /\ universe = NoUniverse /\ scPc = "idle" /\ allSymbols = <<>>
    /\ filtered = <<>> /\ analyzed = <<>> /\ k = 0 /\ signals = <<>>
    /\ results = NoResults

\* The result of a function that was not called yet.
NotComputed == [computed |-> FALSE]

\* Every added component is idle, or every one but the component named.
ExtIdleExcept(c) ==
    /\ IF c = "rr" THEN TRUE
       ELSE market = [date |-> 0] /\ runNo = 1 /\ previous = NoResults
    /\ IF c = "batch" THEN TRUE
       ELSE /\ batch = [symbols |-> <<>>] /\ batchPc = "idle"
            /\ batchK = 0 /\ batchResults = <<>>
    /\ IF c = "fund" THEN TRUE
       ELSE fundamentalData = [present |-> FALSE] /\ fundamentalResult = NotComputed
    /\ IF c = "perf" THEN TRUE
       ELSE ledger = [trades |-> <<>>] /\ performance = NotComputed
    /\ IF c = "entry" THEN TRUE
       ELSE entryCase = [index |-> 0] /\ entryResult = NotComputed
    /\ IF c = "inst" THEN TRUE
       ELSE institutionalData = <<>> /\ institutionalResult = NotComputed
    /\ IF c = "ma" THEN TRUE ELSE maData = <<>> /\ maSystem = NotComputed
    /\ IF c = "tech" THEN TRUE
       ELSE technicalData = [data |-> <<>>] /\ technicalResult = NotComputed
    /\ IF c = "alert" THEN TRUE
       ELSE alertInput = [symbols |-> <<>>] /\ alertResult = NotComputed
    /\ IF c = "crawl" THEN TRUE
       ELSE /\ crawlerConfig = [maxRetries |-> 0] /\ clock = 0
            /\ lastRequestTime = 0 /\ requestCount = 0 /\ calls = <<>>
            /\ lastStart = -1 /\ minGap = -1 /\ minAttemptGap = -1

\* Every added component keeps its state, or every one but the one named.
ExtUnchangedExcept(c) ==
    /\ IF c = "rr" THEN TRUE ELSE UNCHANGED <<market, runNo, previous>>
    /\ IF c = "batch" THEN TRUE
       ELSE UNCHANGED <<batch, batchPc, batchK, batchResults>>
    /\ IF c = "fund" THEN TRUE ELSE UNCHANGED <<fundamentalData, fundamentalResult>>
    /\ IF c = "perf" THEN TRUE ELSE UNCHANGED <<ledger, performance>>
    /\ IF c = "entry" THEN TRUE ELSE UNCHANGED <<entryCase, entryResult>>
    /\ IF c = "inst" THEN TRUE
       ELSE UNCHANGED <<institutionalData, institutionalResult>>
    /\ IF c = "ma" THEN TRUE ELSE UNCHANGED <<maData, maSystem>>
    /\ IF c = "tech" THEN TRUE ELSE UNCHANGED <<technicalData, technicalResult>>
    /\ IF c = "alert" THEN TRUE ELSE UNCHANGED <<alertInput, alertResult>>
    /\ IF c = "crawl" THEN TRUE
       ELSE UNCHANGED <<crawlerConfig, clock, lastRequestTime, requestCount,
                        calls, lastStart, minGap, minAttemptGap>>

\* The first four components are idle.
CoreIdle == BtIdle /\ CmpIdle /\ DdIdle /\ ScIdle

--------------------------------------------------------------------------
(* Specification of a simulation: _simulate(data, strategy) on an engine
   built with one of the configurations *)

BtInit ==
    /\ \E sc \in Scenarios : config = sc[1] /\ strategy = sc[2]
    /\ \E n \in 0..MaxBars : data \in Histories(n)
    /\ i = 0
    /\ capital = config.initialCapital * 10
    /\ position = NoPosition
    /\ highestSinceEntry = 0
    /\ trades = <<>>
    /\ equityCurve = <<>>
    /\ btPc = "loop"
    /\ opened = <<>>
    /\ CmpIdle /\ DdIdle /\ ScIdle /\ ExtIdleExcept("")

BtNext == SimulateBar \/ ForceClose

SpecBacktest == BtInit /\ [][BtNext]_vars


--------------------------------------------------------------------------
(* Properties of a simulation *)

\* highestSinceEntry as the loop has built it for a position entered on day
\* `from` and looked at on day `to`.
HighestBetween(from, to) ==
    LET RECURSIVE H(_)
        H(d) == IF d = from
                THEN (IF data[d].high # 0 THEN data[d].high ELSE data[d].close)
                ELSE RaiseHighest(H(d - 1), data[d])
    IN  H(to)

\* C2: at most one position is open at any bar.  The trades of the ledger do
\* not overlap in time (each entry is on or after the previous exit), an open
\* position starts on or after the last exit, and every position ever
\* opened is either the one open position or exactly one trade of the
\* ledger: none was replaced or added to while open.
C2_SinglePosition ==
    /\ \A n \in 1..Len(trades) : trades[n].entryDate <= trades[n].exitDate
    /\ \A n \in 1..(Len(trades) - 1) :
          trades[n + 1].entryDate >= trades[n].exitDate
    /\ (btPc = "loop" /\ position.open) =>
          /\ trades # <<>> => position.entryDate >= Last(trades).exitDate
          /\ opened # <<>> /\ Last(opened) = position.entryDate
    /\ Len(opened) =
          Len(trades) + (IF btPc = "loop" /\ position.open THEN 1 ELSE 0)

\* Two trades, the second entered after the first was closed.
C2_Witness ==
    /\ btPc = "done"
    /\ Len(trades) >= 2
    /\ trades[2].entryDate > trades[1].exitDate

\* The conditions of the exit rule as the claim states them, on a position
\* entered at entryPrice (hundredths).
C3_StopCond(entryPrice, close) ==
    (close * 100 - entryPrice) * 100 <= -(strategy.stopLoss * entryPrice)
C3_ProfitCond(entryPrice, close) ==
    (close * 100 - entryPrice) * 100 >= strategy.takeProfit * entryPrice
C3_TrailCond(entryPrice, close, highest) ==
    /\ highest > 0
    /\ (highest * 100 - entryPrice) * 100 >= strategy.trailingActivation * entryPrice
    /\ (highest - close) * 100 >= strategy.trailingStop * highest

\* C3: the exit rule has the fixed priority stop-loss, take-profit,
\* trailing-stop.  For the open position and every bar and running high:
\* if the stop-loss condition holds the reason is stop-loss, also when the
\* trailing condition holds; if take-profit holds and stop-loss does not the
\* reason is take-profit, also when the trailing condition holds; if no
\* condition holds there is no exit.
C3_ExitPriority ==
    (btPc = "loop" /\ position.open) =>
        \A b \in BarKinds :
        \A h \in {0} \cup {x.high : x \in BarKinds} \cup {x.close : x \in BarKinds} :
            LET r  == shouldExit(strategy, position, b, h)
                sl == C3_StopCond(position.entryPrice, b.close)
                tp == C3_ProfitCond(position.entryPrice, b.close)
                tr == C3_TrailCond(position.entryPrice, b.close, h)
            IN  /\ sl => (r.exit /\ r.reason = "stopLoss")
                /\ (tp /\ ~sl) => (r.exit /\ r.reason = "takeProfit")
                /\ (~sl /\ ~tp /\ ~tr) => ~r.exit

\* A trade closed by the stop-loss on a bar where the trailing-stop condition
\* held as well.
C3_Witness ==
    \E n \in 1..Len(trades) :
        /\ trades[n].exitReason = "stopLoss"
        /\ C3_TrailCond(trades[n].entryPrice, data[trades[n].exitDate].close,
                        HighestBetween(trades[n].entryDate, trades[n].exitDate))

\* A trade closed by the take-profit on a bar where the trailing-stop
\* condition held as well.
C3_WitnessTakeProfit ==
    \E n \in 1..Len(trades) :
        /\ trades[n].exitReason = "takeProfit"
        /\ C3_TrailCond(trades[n].entryPrice, data[trades[n].exitDate].close,
                        HighestBetween(trades[n].entryDate, trades[n].exitDate))

\* The trailing stop is armed: the high-since-entry return
\* (highest - entryPrice) / entryPrice is at least trailingActivation.
C14_Armed(entryPrice, highest) ==
    (highest * 100 - entryPrice) * 100 >= strategy.trailingActivation * entryPrice

\* The trailing stop is tripped: the drawdown from the high
\* (highest - close) / highest is at least trailingStop.
C14_Tripped(close, highest) ==
    (highest - close) * 100 >= strategy.trailingStop * highest

\* C14: a trailing-stop exit fires only when the trailing stop is armed and
\* tripped.  Every trade of the ledger closed by the trailing stop was
\* armed and tripped on its exit bar, with the high the loop had built; and
\* for the open position, whatever the bar and the running high, the exit
\* rule answers trailing-stop only if the stop is armed and tripped, so
\* below trailingActivation no drawdown from the high gives that exit.
C14_TrailingOnlyWhenArmed ==
    /\ \A n \in 1..Len(trades) :
          trades[n].exitReason = "trailingStop" =>
              LET highest == HighestBetween(trades[n].entryDate, trades[n].exitDate)
              IN  /\ C14_Armed(trades[n].entryPrice, highest)
                  /\ C14_Tripped(data[trades[n].exitDate].close, highest)
    /\ (btPc = "loop" /\ position.open) =>
          \A b \in BarKinds :
          \A h \in {0} \cup {x.high : x \in BarKinds} \cup {x.close : x \in BarKinds} :
              shouldExit(strategy, position, b, h).reason = "trailingStop" =>
                  /\ C14_Armed(position.entryPrice, h)
                  /\ C14_Tripped(b.close, h)

\* A trade closed by the trailing stop: on its exit bar neither the
\* stop-loss nor the take-profit condition held, and the stop was armed by
\* a high above the exit bar's close.
C14_Witness ==
    \E n \in 1..Len(trades) :
        /\ trades[n].exitReason = "trailingStop"
        /\ HighestBetween(trades[n].entryDate, trades[n].exitDate)
              > data[trades[n].exitDate].close
        /\ C14_Armed(trades[n].entryPrice,
                     HighestBetween(trades[n].entryDate, trades[n].exitDate))

\* A trade closed on a bar where the drawdown from the high was at least
\* trailingStop while the stop was not armed: the reason is not the
\* trailing stop.
C14_WitnessUnarmed ==
    \E n \in 1..Len(trades) :
        LET highest == HighestBetween(trades[n].entryDate, trades[n].exitDate)
        IN  /\ trades[n].exitReason \in {"stopLoss", "takeProfit"}
            /\ ~C14_Armed(trades[n].entryPrice, highest)
            /\ C14_Tripped(data[trades[n].exitDate].close, highest)

\* C4: a position still open after the last bar is closed at the last bar's
\* close with no slippage and is the last trade of the ledger, with the
\* forced end-of-period reason; so once the simulation has returned, the
\* ledger holds every position ever opened exactly once, in order.
C4_ForcedClose ==
    btPc = "done" =>
        /\ position.open =>
              /\ trades # <<>>
              /\ Last(trades).exitReason = "forcedClose"
              /\ Last(trades).entryDate = position.entryDate
              /\ Last(trades).shares = position.shares
              /\ Last(trades).exitDate = Last(data).date
              /\ Last(trades).exitPrice = Last(data).close * 100
        /\ Len(trades) = Len(opened)
        /\ \A n \in 1..Len(trades) : trades[n].entryDate = opened[n]
        /\ \A n \in 1..Len(trades) :
              trades[n].exitReason = "forcedClose" => (n = Len(trades) /\ position.open)

\* A forced close that follows an earlier, regularly closed trade.
C4_Witness ==
    /\ btPc = "done"
    /\ position.open
    /\ Len(trades) >= 2
    /\ Last(trades).exitReason = "forcedClose"

\* The total cost of the position just opened: entry price x shares + buy
\* commission, in tenths.
C5_CostOf(pos) == (pos.entryPrice * pos.shares * (100 + config.commission)) \div 1000

\* C5: an entry is taken only when its total cost does not exceed the
\* available capital, and is paid from it; cash is never negative.
C5_EntryAffordable ==
    /\ [](capital >= 0)
    /\ [][(~position.open /\ position'.open) =>
            /\ C5_CostOf(position') <= capital
            /\ capital' = capital - C5_CostOf(position')]_vars

\* The bar just processed gave an entry signal for a position of at least
\* one lot whose cost exceeds the capital: the entry was skipped.
C5_Witness ==
    /\ btPc = "loop" /\ i >= 1
    /\ trades = <<>> /\ ~position.open
    /\ shouldEntry(strategy, Reverse(data), Len(data) - i)
    /\ LET ep == data[i].close * (100 + config.slippage)
           sh == ((capital * config.positionSize) \div (ep * 10 * 1000)) * 1000
       IN  /\ sh > 0
           /\ (ep * sh * (100 + config.commission)) \div 1000 > capital

\* C6 (as claimed): the equity curve has one point per bar, and point n is
\* the equity after bar n.
C6_EquityPerBar ==
    btPc = "done" => Len(equityCurve) = Len(data)


--------------------------------------------------------------------------
(* calculateCompositeScore *)

\* WEIGHTS, in percent.
WeightTechnical     == 40
WeightInstitutional == 30
WeightFundamental   == 30

\* TIER_THRESHOLDS, TIER1_MIN_DIMENSION, TIER2_MIN_DIMENSION
Tier1Threshold    == 75
Tier2Threshold    == 60
Tier3Threshold    == 45
Tier1MinDimension == 60
Tier2MinDimension == 50

\* The numbers of the weighted sum are IEEE doubles.  A double near a
\* multiple of a tenth is written [q, d]: it is q/10 + d/(10 * 2^54), so d
\* is how far the double is from the decimal it stands for.  The literal
\* 0.40 is [4, 4] and the literal 0.30 is [3, -2].
\*
\* nearestDouble[<<q, d>>]: the double nearest to the exact value [q, d], ties
\* to the even mantissa, as every * and + of the code rounds its result.
\* The exact value is a multiple of 2^-54; the doubles near it are the
\* multiples of u/(10 * 2^54) where u = 10 * 2^(e+2) and 2^e is the power
\* of two at or below the value.
nearestDouble ==
    [x \in Int \X Int |->
        IF x[1] = 0 /\ x[2] = 0 THEN [q |-> 0, d |-> 0]
        ELSE
        LET atOrBelow == CHOOSE u \in {10, 20, 40, 80, 160, 320, 640, 1280, 2560} :
                            u <= 4 * x[1] /\ 2 * u > 4 * x[1]
            u     == IF atOrBelow = 4 * x[1] /\ x[2] < 0 THEN atOrBelow \div 2
                     ELSE atOrBelow
            p     == u \div 10
            shift == CHOOSE j \in 0..8 : 2^j = p
            \* 2^(54 - shift) modulo 20
            power == CASE (54 - shift) % 4 = 0 -> 16
                       [] (54 - shift) % 4 = 1 -> 12
                       [] (54 - shift) % 4 = 2 -> 4
                       [] OTHER -> 8
            m20   == ((x[1] % 20) * power) % 20
            r     == (m20 * p + x[2]) % (20 * p)
            odd   == r \div (10 * p) = 1
            rem   == r % (10 * p)
        IN  IF rem < 5 * p \/ (rem = 5 * p /\ ~odd)
            THEN [q |-> x[1], d |-> x[2] - rem]
            ELSE [q |-> x[1], d |-> x[2] + 10 * p - rem]]

RoundToDouble(q, d) == nearestDouble[<<q, d>>]

\* score * WEIGHTS.X for a weight given in percent (40 or 30).
FloatTimes(score, weight) ==
    IF weight = 40 THEN RoundToDouble(score * 4, score * 4)
    ELSE RoundToDouble(score * 3, score * (-2))

\* a + b + c, added left to right.
FloatSum(a, b, c) ==
    LET ab == RoundToDouble(a.q + b.q, a.d + b.d)
    IN  RoundToDouble(ab.q + c.q, ab.d + c.d)

\* Math.round(x): the integer nearest to x, a half going up.
MathRound(x) == IF x.d >= 0 THEN (x.q + 5) \div 10 ELSE (x.q + 4) \div 10

\* Math.min(technicalScore, institutionalScore, fundamentalScore)
MinDimensionOfTechnical(t, n, f) == t

\* A floor on how balanced the dimensions are, in place of their minimum.
MinDimensionAsBalance(t, n, f) == 100 - (Max(t, Max(n, f)) - Min(t, Min(n, f)))

MinDimension(t, n, f) == Min(t, Min(n, f))

\* calculateCompositeScore(technicalScore, institutionalScore,
\* fundamentalScore).  The weighted sum is computed in doubles; the tier is
\* decided on the unclamped rounded sum.
calculateCompositeScore(t, n, f) ==
    LET totalScore   == MathRound(FloatSum(FloatTimes(t, WeightTechnical),
                                           FloatTimes(n, WeightInstitutional),
                                           FloatTimes(f, WeightFundamental)))
        minDimension == MinDimension(t, n, f)
        tier == IF totalScore >= Tier1Threshold /\ minDimension >= Tier1MinDimension
                    THEN "TIER1"
                ELSE IF totalScore >= Tier2Threshold /\ minDimension >= Tier2MinDimension
                    THEN "TIER2"
                ELSE IF totalScore >= Tier3Threshold
                    THEN "TIER3"
                ELSE "EXCLUDED"
    IN  [totalScore     |-> Min(100, Max(0, totalScore)),
         tier           |-> tier,
         recommendation |-> IF tier = "TIER1" THEN "BUY"
                            ELSE IF tier = "EXCLUDED" THEN "AVOID"
                            ELSE "WATCH"]

\* The dimension scores a composite is computed from.
DimValues == {0, 30, 45, 49, 50, 55, 57, 59, 60, 68, 70, 75, 80, 90, 95, 100}

CmpInit ==
    /\ dims \in DimValues \X DimValues \X DimValues
    /\ composite = NoComposite
    /\ BtIdle /\ DdIdle /\ ScIdle /\ ExtIdleExcept("")

Compose ==
    /\ composite = NoComposite
    /\ composite' = calculateCompositeScore(dims[1], dims[2], dims[3])
    /\ UNCHANGED <<dims, btVars, ddVars, scVars, extVars>>

SpecComposite == CmpInit /\ [][Compose]_vars

\* C1: the tier follows the ordered rule on the returned totalScore and the
\* three dimension scores: TIER1 iff total >= 75 and every dimension >= 60;
\* otherwise TIER2 iff total >= 60 and every dimension >= 50; otherwise TIER3
\* iff total >= 45; otherwise EXCLUDED.
C1_TierRule ==
    composite # NoComposite =>
        LET total == composite.totalScore
            all60 == \A d \in 1..3 : dims[d] >= 60
            all50 == \A d \in 1..3 : dims[d] >= 50
            t1    == total >= 75 /\ all60
            t2    == ~t1 /\ total >= 60 /\ all50
            t3    == ~t1 /\ ~t2 /\ total >= 45
        IN  /\ composite.tier = "TIER1" <=> t1
            /\ composite.tier = "TIER2" <=> t2
            /\ composite.tier = "TIER3" <=> t3
            /\ composite.tier = "EXCLUDED" <=> (~t1 /\ ~t2 /\ ~t3)

\* A weighted average of at least 75 kept out of TIER1 by one dimension
\* below 60, as for calculateCompositeScore(95, 90, 50).
C1_Witness ==
    /\ composite # NoComposite
    /\ composite.totalScore >= 75
    /\ \E d \in 1..3 : dims[d] < 60
    /\ composite.tier = "TIER2"

--------------------------------------------------------------------------
(* _calculateMaxDrawdown *)

MaxCurveLen == 4

EquityValues == {40, 100, 130, 200}

\* _calculateMaxDrawdown(equityCurve).  maxDrawdownPct = drawdown / peak * 100
\* is kept as the fraction pctNum / pctDen (0 / 1 when it is 0).
calculateMaxDrawdown(c) ==
    IF Len(c) = 0
    THEN [maxDrawdown |-> 0, pctNum |-> 0, pctDen |-> 1]
    ELSE LET RECURSIVE Loop(_, _, _)
             Loop(n, peak, acc) ==
                 IF n > Len(c) THEN acc
                 ELSE LET equity   == c[n]
                          newPeak  == IF equity > peak THEN equity ELSE peak
                          dd       == newPeak - equity
                          ddPctNum == IF newPeak > 0 THEN dd * 100 ELSE 0
                          ddPctDen == IF newPeak > 0 THEN newPeak ELSE 1
                      IN  IF dd > acc.maxDrawdown
                          THEN Loop(n + 1, newPeak,
                                    [maxDrawdown |-> dd, pctNum |-> ddPctNum,
                                     pctDen |-> ddPctDen])
                          ELSE Loop(n + 1, newPeak, acc)
         IN  Loop(1, c[1], [maxDrawdown |-> 0, pctNum |-> 0, pctDen |-> 1])

DdInit ==
    /\ \E n \in 0..MaxCurveLen : curve \in [1..n -> EquityValues]
    /\ drawdown = NoDrawdown
    /\ BtIdle /\ CmpIdle /\ ScIdle /\ ExtIdleExcept("")

ComputeDrawdown ==
    /\ ~drawdown.computed
    /\ drawdown' = [computed |-> TRUE] @@ calculateMaxDrawdown(curve)
    /\ UNCHANGED <<curve, btVars, cmpVars, scVars, extVars>>

SpecDrawdown == DdInit /\ [][ComputeDrawdown]_vars

\* The running peak at point n of the curve.
C7_PeakAt(n) ==
    LET RECURSIVE P(_)
        P(m) == IF m = 1 THEN curve[1] ELSE Max(P(m - 1), curve[m])
    IN  P(n)

\* C7 (as claimed): maxDrawdown is the largest absolute drop below a running
\* peak and maxDrawdownPct the largest percentage drop below a running peak,
\* each over all points of the curve.
C7_MaxDrawdown ==
    (drawdown.computed /\ Len(curve) > 0) =>
        /\ \A n \in 1..Len(curve) : C7_PeakAt(n) - curve[n] <= drawdown.maxDrawdown
        /\ \E n \in 1..Len(curve) : C7_PeakAt(n) - curve[n] = drawdown.maxDrawdown
        /\ \A n \in 1..Len(curve) :
              (C7_PeakAt(n) - curve[n]) * 100 * drawdown.pctDen
                  <= drawdown.pctNum * C7_PeakAt(n)
        /\ \E n \in 1..Len(curve) :
              (C7_PeakAt(n) - curve[n]) * 100 * drawdown.pctDen
                  = drawdown.pctNum * C7_PeakAt(n)


--------------------------------------------------------------------------
(* ThreeDimensionalScreener *)

\* Symbols in the database.
NumSymbols == 22

\* FILTER_DEFAULTS
FilterDefaults == [minAvgVolume |-> 1000, minPrice |-> 10, topN |-> 20]

\* new ThreeDimensionalScreener(db, { topN: 5 })
FilterTop5 == [minAvgVolume |-> 1000, minPrice |-> 10, topN |-> 5]

\* The slice sizes of the tier lists.
Tier1Cap == 10
Tier2Cap == 20
Tier3Cap == 20

\* What the database holds for one symbol.  The rows themselves are kept
\* only as far as run() looks at them: the length of the symbol code, the
\* 5 most recent price rows (their count, the sum of their volumes, the
\* latest close), the number of price rows and of institutional rows the
\* history queries return, and the value each scorer computes from the rows
\* when it has enough of them.
Stock(n, t, ins, f) ==
    [symbol |-> n, codeLength |-> 4, filterQueryFails |-> FALSE,
     recentCount |-> 5, recentVolume |-> 10000, latestClose |-> 50,
     priceRows |-> 80, technical |-> t,
     institutionalRows |-> 20, institutional |-> ins,
     fundamentalPresent |-> TRUE, fundamental |-> f]

\* A spread of 0..10 that is not monotone in n and repeats with period 11.
Spread(n) == (n * 7) % 11

MixedRow(n) ==
    LET c == n % 11
        base == Stock(n, 70, 70, 70)
    IN  CASE c = 0  -> [base EXCEPT !.codeLength = 6]
          [] c = 1  -> [base EXCEPT !.recentCount = 3, !.recentVolume = 6000,
                                    !.priceRows = 3]
          [] c = 2  -> [base EXCEPT !.recentVolume = 2500]
          [] c = 3  -> [base EXCEPT !.latestClose = 5]
          [] c = 4  -> [base EXCEPT !.filterQueryFails = TRUE]
          [] c = 5  -> [base EXCEPT !.priceRows = 40]
          [] c = 6  -> [Stock(n, 100, 0, 100) EXCEPT !.institutionalRows = 2]
          [] c = 7  -> [Stock(n, 90, 90, 0) EXCEPT !.fundamentalPresent = FALSE]
          [] c = 8  -> Stock(n, 85, 80, 80)
          [] c = 9  -> Stock(n, 60 + n, 65, 60)
          [] OTHER  -> Stock(n, 20, 30, 40)

Rows(mix) ==
    [n \in 1..NumSymbols |->
        CASE mix = "TIER1" -> Stock(n, 80 + Spread(n), 80, 80)
          [] mix = "TIER2" -> Stock(n, 60 + Spread(n), 65, 60)
          [] mix = "TIER3" -> Stock(n, 40 + Spread(n), 50, 50)
          [] OTHER         -> MixedRow(n)]

Universes ==
    { [rows |-> Rows(mix), loadFails |-> FALSE, saveFails |-> FALSE,
       config |-> cfg] :
        mix \in {"TIER1", "TIER2", "TIER3", "MIXED"},
        cfg \in {FilterDefaults, FilterTop5} }
    \cup
    { [rows |-> Rows("MIXED"), loadFails |-> lf, saveFails |-> ~lf,
       config |-> FilterDefaults] : lf \in BOOLEAN }

\* scoreTechnical(priceData): an error result with score 0 below 60 rows,
\* otherwise the computed score clamped to [0, 100].
scoreTechnical(row) ==
    IF row.priceRows < 60
    THEN [score |-> 0, error |-> TRUE]
    ELSE [score |-> Min(100, Max(0, row.technical)), error |-> FALSE]

\* scoreInstitutional(institutionalData): an error result with score 0
\* below 3 rows, otherwise the computed score clamped to [0, 100].
scoreInstitutional(row) ==
    IF row.institutionalRows < 3
    THEN [score |-> 0, error |-> TRUE]
    ELSE [score |-> Min(100, Max(0, row.institutional)), error |-> FALSE]

\* A scorer whose neutral score reaches the TIER1 dimension floor.
scoreFundamentalNeutral60(row) ==
    IF ~row.fundamentalPresent
    THEN [score |-> 60, error |-> FALSE]
    ELSE [score |-> Min(100, Max(0, row.fundamental)), error |-> FALSE]

\* scoreFundamental(fundamentalData): the neutral 50 when there is no data.
scoreFundamental(row) ==
    IF ~row.fundamentalPresent
    THEN [score |-> 50, error |-> FALSE]
    ELSE [score |-> Min(100, Max(0, row.fundamental)), error |-> FALSE]

\* _applyFilters, one symbol: "pass", "skip", or "throw" when an exception
\* leaves the loop body.  The query's exception is caught in the body.
ApplyFilterUncaught(cfg, row) ==
    IF row.codeLength # 4 THEN "skip"
    ELSE IF row.filterQueryFails THEN "throw"
    ELSE IF row.recentCount < 5 THEN "skip"
    ELSE IF row.recentVolume >= cfg.minAvgVolume * row.recentCount
            /\ row.latestClose >= cfg.minPrice
         THEN "pass" ELSE "skip"

ApplyFilter(cfg, row) ==
    IF row.codeLength # 4 THEN "skip"
    ELSE IF row.filterQueryFails THEN "skip"
    ELSE IF row.recentCount < 5 THEN "skip"
    ELSE IF row.recentVolume >= cfg.minAvgVolume * row.recentCount
            /\ row.latestClose >= cfg.minPrice
         THEN "pass" ELSE "skip"

\* _analyzeStock(symbol, date): null (present = FALSE) below 60 price rows,
\* otherwise the three scores and their composite.
NoAnalysis ==
    [present |-> FALSE, symbol |-> 0,
     technical |-> [score |-> 0, error |-> FALSE],
     institutional |-> [score |-> 0, error |-> FALSE],
     fundamental |-> [score |-> 0, error |-> FALSE],
     composite |-> NoComposite]

analyzeStock(row) ==
    IF row.priceRows < 60 THEN NoAnalysis
    ELSE LET technical     == scoreTechnical(row)
             institutional == scoreInstitutional(row)
             fundamental   == scoreFundamental(row)
         IN  [present       |-> TRUE,
              symbol        |-> row.symbol,
              technical     |-> technical,
              institutional |-> institutional,
              fundamental   |-> fundamental,
              composite     |-> calculateCompositeScore(technical.score,
                                    institutional.score, fundamental.score)]

\* analyzed.sort((a, b) => b.composite.totalScore - a.composite.totalScore):
\* Array.prototype.sort is stable, so the element at index n goes behind
\* every element with a higher totalScore and behind the elements with the
\* same totalScore that come before it.
SortByTotalAsc(s) ==
    LET Before(n) == {m \in 1..Len(s) :
                        \/ s[m].composite.totalScore < s[n].composite.totalScore
                        \/ /\ s[m].composite.totalScore = s[n].composite.totalScore
                           /\ m < n}
    IN  [p \in 1..Len(s) |-> s[CHOOSE n \in 1..Len(s) : Cardinality(Before(n)) = p - 1]]

\* A sort whose order among equal totalScores depends on what an earlier
\* run left in screener_signals.
SortByTotalDescUnstable(s) ==
    LET Before(n) == {m \in 1..Len(s) :
                        \/ s[m].composite.totalScore > s[n].composite.totalScore
                        \/ /\ s[m].composite.totalScore = s[n].composite.totalScore
                           /\ IF signals = <<>> THEN m < n ELSE m > n}
    IN  [p \in 1..Len(s) |-> s[CHOOSE n \in 1..Len(s) : Cardinality(Before(n)) = p - 1]]

SortByTotalDesc(s) ==
    LET Before(n) == {m \in 1..Len(s) :
                        \/ s[m].composite.totalScore > s[n].composite.totalScore
                        \/ /\ s[m].composite.totalScore = s[n].composite.totalScore
                           /\ m < n}
    IN  [p \in 1..Len(s) |-> s[CHOOSE n \in 1..Len(s) : Cardinality(Before(n)) = p - 1]]

\* analyzed.filter(s => s.composite.tier === tier)
WithTier(s, tier) == SelectSeq(s, LAMBDA x : x.composite.tier = tier)

\* list.slice(0, n)
Slice(s, n) == SubSeq(s, 1, Min(n, Len(s)))

\* Step 1: _loadAllSymbols (a failing query gives the empty list).
LoadUniverse ==
    /\ scPc = "load"
    /\ allSymbols' = IF universe.loadFails THEN <<>>
                     ELSE [n \in 1..Len(universe.rows) |-> universe.rows[n].symbol]
    /\ scPc' = IF allSymbols' = <<>> THEN "rank" ELSE "filter"
    /\ k' = 0
    /\ UNCHANGED <<universe, filtered, analyzed, signals, results>>
    /\ UNCHANGED <<btVars, cmpVars, ddVars, extVars>>

\* Step 2: one iteration of the loop of _applyFilters.
FilterSymbol ==
    /\ scPc = "filter"
    /\ k < Len(allSymbols)
    /\ LET symbol  == allSymbols[k + 1]
           outcome == ApplyFilter(universe.config, universe.rows[symbol])
           passed  == IF outcome = "pass" THEN Append(filtered, symbol)
                      ELSE filtered
       IN  IF outcome = "throw"
           THEN scPc' = "failed" /\ UNCHANGED <<filtered, k>>
           ELSE /\ filtered' = passed
                /\ IF k + 1 < Len(allSymbols)
                   THEN k' = k + 1 /\ UNCHANGED scPc
                   ELSE k' = 0 /\ scPc' = IF passed = <<>> THEN "rank" ELSE "score"
    /\ UNCHANGED <<universe, allSymbols, analyzed, signals, results>>
    /\ UNCHANGED <<btVars, cmpVars, ddVars, extVars>>

\* Step 3: one iteration of the analysis loop.
AnalyzeSymbol ==
    /\ scPc = "score"
    /\ k < Len(filtered)
    /\ LET symbol == filtered[k + 1]
           result == analyzeStock(universe.rows[symbol])
       IN  analyzed' = IF result.present THEN Append(analyzed, result)
                       ELSE analyzed
    /\ IF k + 1 < Len(filtered)
       THEN k' = k + 1 /\ UNCHANGED scPc
       ELSE k' = 0 /\ scPc' = "rank"
    /\ UNCHANGED <<universe, allSymbols, filtered, signals, results>>
    /\ UNCHANGED <<btVars, cmpVars, ddVars, extVars>>

\* Steps 4 to 6 and the return: sort, tier, save the signals, build results.
RankAndTier ==
    /\ scPc = "rank"
    /\ LET sorted == SortByTotalDesc(analyzed)
           tier1  == Slice(WithTier(sorted, "TIER1"), Tier1Cap)
           tier2  == Slice(WithTier(sorted, "TIER2"), Tier2Cap)
           tier3  == Slice(WithTier(sorted, "TIER3"), Tier3Cap)
           topN   == Slice(sorted, universe.config.topN)
       IN  /\ analyzed' = sorted
           /\ signals' = IF universe.saveFails THEN signals
                         ELSE [n \in 1..Len(topN) |->
                                  [symbol |-> topN[n].symbol,
                                   totalScore |-> topN[n].composite.totalScore,
                                   tier |-> topN[n].composite.tier]]
           /\ results' = [tier1 |-> tier1, tier2 |-> tier2, tier3 |-> tier3,
                          topN |-> topN,
                          summary |-> [totalMarket |-> Len(allSymbols),
                                       afterFilter |-> Len(filtered),
                                       analyzed    |-> Len(sorted),
                                       tier1Count  |-> Len(tier1),
                                       tier2Count  |-> Len(tier2),
                                       tier3Count  |-> Len(tier3)]]
    /\ scPc' = "done"
    /\ UNCHANGED <<universe, allSymbols, filtered, k>>
    /\ UNCHANGED <<btVars, cmpVars, ddVars, extVars>>

ScInit ==
    /\ universe \in Universes
    /\ scPc = "load"
    /\ allSymbols = <<>> /\ filtered = <<>> /\ analyzed = <<>>
    /\ k = 0 /\ signals = <<>> /\ results = NoResults
    /\ BtIdle /\ CmpIdle /\ DdIdle /\ ExtIdleExcept("")

ScNext == LoadUniverse \/ FilterSymbol \/ AnalyzeSymbol \/ RankAndTier

\* run() is one synchronous pass: a step that can be taken is taken.
SpecScreener == ScInit /\ [][ScNext]_vars /\ WF_vars(ScNext)


--------------------------------------------------------------------------
(* Properties of a screener run *)

SymbolsOf(list) == {list[n].symbol : n \in 1..Len(list)}

\* The filter criteria, as stated for the FILTER stage.
C8_Eligible(row) ==
    /\ row.codeLength = 4
    /\ ~row.filterQueryFails
    /\ row.recentCount >= 5
    /\ row.recentVolume >= universe.config.minAvgVolume * row.recentCount
    /\ row.latestClose >= universe.config.minPrice

\* Every loaded symbol was taken through the stages: exactly the eligible
\* ones passed the filter, exactly those of them with at least 60 price rows
\* were analysed, and the summary counts them.
C8_AllProcessed ==
    /\ ~universe.loadFails => Len(allSymbols) = Len(universe.rows)
    /\ \A n \in 1..Len(allSymbols) :
          C8_Eligible(universe.rows[allSymbols[n]])
              <=> \E m \in 1..Len(filtered) : filtered[m] = allSymbols[n]
    /\ \A m \in 1..Len(filtered) :
          universe.rows[filtered[m]].priceRows >= 60
              <=> filtered[m] \in SymbolsOf(analyzed)
    /\ results.summary.totalMarket = Len(allSymbols)
    /\ results.summary.afterFilter = Len(filtered)
    /\ results.summary.analyzed = Len(analyzed)
    /\ results.summary.tier1Count = Len(results.tier1)
    /\ results.summary.tier2Count = Len(results.tier2)
    /\ results.summary.tier3Count = Len(results.tier3)

\* C8: a screener run always completes and returns its lists and summary.
\* It never ends in the failed state, it eventually returns, and when it
\* has returned every symbol was processed, whatever failed for another
\* symbol.
C8_RunCompletes ==
    /\ [](scPc # "failed")
    /\ <>(scPc = "done")
    /\ [](scPc = "done" => C8_AllProcessed)

\* The run has returned, the filter query of one symbol had failed, and a
\* symbol after it was analysed.
C8_Witness ==
    /\ scPc = "done"
    /\ \E n \in 1..Len(allSymbols) : \E m \in SymbolsOf(analyzed) :
          /\ universe.rows[allSymbols[n]].filterQueryFails
          /\ m > allSymbols[n]

\* A dimension scorer fails for the symbol: it returns an error result.
C9_ScorerFails(row) ==
    row.priceRows < 60 \/ row.institutionalRows < 3

\* C9 (as claimed): a symbol for which a dimension scorer fails is in none
\* of tier1, tier2, tier3 and topN and is not counted as analysed.
C9_FailedScorerExcluded ==
    scPc = "done" =>
        \A n \in 1..Len(universe.rows) :
            C9_ScorerFails(universe.rows[n]) =>
                /\ n \notin SymbolsOf(results.tier1)
                /\ n \notin SymbolsOf(results.tier2)
                /\ n \notin SymbolsOf(results.tier3)
                /\ n \notin SymbolsOf(results.topN)
                /\ n \notin SymbolsOf(analyzed)

\* The analysed symbols a list is drawn from: those tagged with the tier, or
\* all of them for "ANY".
C10_Pool(tier) ==
    {n \in 1..Len(analyzed) : tier = "ANY" \/ analyzed[n].composite.tier = tier}

\* list holds the (at most cap) highest-totalScore symbols of the pool, in
\* descending order.
C10_IsTop(list, tier, cap) ==
    /\ Len(list) = Min(cap, Cardinality(C10_Pool(tier)))
    /\ \A j \in 1..Len(list) : \E n \in C10_Pool(tier) : analyzed[n] = list[j]
    /\ \A j1, j2 \in 1..Len(list) : j1 # j2 => list[j1].symbol # list[j2].symbol
    /\ \A j \in 1..(Len(list) - 1) :
          list[j].composite.totalScore >= list[j + 1].composite.totalScore
    /\ \A n \in C10_Pool(tier) :
          analyzed[n].symbol \notin SymbolsOf(list) =>
              \A j \in 1..Len(list) :
                  analyzed[n].composite.totalScore <= list[j].composite.totalScore

\* C10: tier1, tier2, tier3 are the at most 10, 20, 20 highest-totalScore
\* analysed symbols tagged TIER1, TIER2, TIER3, and topN the at most N
\* highest overall; each list is in descending totalScore order and no
\* symbol left out has a strictly higher totalScore than one included.
C10_TopOfRanking ==
    scPc = "done" =>
        /\ C10_IsTop(results.tier1, "TIER1", 10)
        /\ C10_IsTop(results.tier2, "TIER2", 20)
        /\ C10_IsTop(results.tier3, "TIER3", 20)
        /\ C10_IsTop(results.topN, "ANY", universe.config.topN)

\* A run in which tier1 and topN are both cut: more than 10 symbols are
\* tagged TIER1, and some symbol left out of tier1 scores strictly less
\* than one in it.
C10_Witness ==
    /\ scPc = "done"
    /\ Cardinality(C10_Pool("TIER1")) > 10
    /\ Len(results.tier1) = 10
    /\ Len(results.topN) < Len(analyzed)
    /\ \E n \in C10_Pool("TIER1") :
          /\ analyzed[n].symbol \notin SymbolsOf(results.tier1)
          /\ analyzed[n].composite.totalScore < results.tier1[1].composite.totalScore

--------------------------------------------------------------------------
(* scoreInstitutional on the rows themselves *)

\* Rows of a flow history that may vary (the two most recent ones are drawn
\* from FlowRows; the older ones are all alike).
MaxFlowRows == 6

\* One row of institutional_trades: net flows in shares, balances in lots.
FlowRow(f, t, d, m, s) ==
    [foreign_net |-> f, trust_net |-> t, dealer_net |-> d,
     margin_balance |-> m, short_balance |-> s]

FlowRows ==
    { FlowRow(f, t, d, m, s) :
        f \in {-100, 200, 600}, t \in {-50, 1, 150, 600}, d \in {-10, 1, 600},
        m \in {0, 1000, 2000}, s \in {0, 100, 500} }

OlderFlowRows ==
    { FlowRow(600, 1, 1, 1000, 500), FlowRow(700, 50, 20, 0, 0),
      FlowRow(-100, 1, 1, 1000, 0), FlowRow(200, -50, -10, 2000, 100) }

\* The rows that may come second behind the row r1: r1's flows with another
\* margin balance, or one of the older rows.
SecondFlowRows(r1) ==
    { FlowRow(r1.foreign_net, r1.trust_net, r1.dealer_net, m, 100) :
        m \in {500, 1000, 3000} }
    \cup OlderFlowRows

\* Flow histories, most recent first: the latest row and the one before it
\* vary, the older rows repeat one row.
FlowHistoriesFrom(r1) ==
    { [j \in 1..n |-> IF j = 1 THEN r1 ELSE IF j = 2 THEN r2 ELSE old] :
        n \in 2..MaxFlowRows, r2 \in SecondFlowRows(r1), old \in OlderFlowRows }

FlowHistories ==
    { <<>> } \cup { <<r>> : r \in OlderFlowRows }
    \cup UNION { FlowHistoriesFrom(r1) : r1 \in FlowRows }

\* _countConsecutive(data, predicate): the number of leading rows that
\* satisfy the predicate.  Every caller passes d => d.<column> > 0, so the
\* predicate is given by its column.
countConsecutive(d, column) ==
    Cardinality({n \in 1..Len(d) : \A m \in 1..n : d[m][column] > 0})

\* institutionalData.slice(0, 5).reduce((s, d) => s + (d.foreign_net || 0), 0)
foreign5DaySum(d) ==
    LET at(j) == IF j <= Len(d) THEN d[j].foreign_net ELSE 0
    IN  at(1) + at(2) + at(3) + at(4) + at(5)

\* The sentiment label of a score.
sentimentOfStrict(score) ==
    IF score >= 90 THEN "strong"
    ELSE IF score >= 80 THEN "healthy"
    ELSE IF score >= 40 THEN "watch"
    ELSE "avoid"

sentimentOf(score) ==
    IF score >= 80 THEN "strong"
    ELSE IF score >= 60 THEN "healthy"
    ELSE IF score >= 40 THEN "watch"
    ELSE "avoid"

\* The sub-score of the margin and short balances, without its clamp to 0.
marginScoreUnclamped(d) ==
    LET latest == d[1]
        prev   == d[2]
    IN  50
        + (IF latest.margin_balance < prev.margin_balance THEN 25 ELSE 0)
        - (IF latest.margin_balance > prev.margin_balance THEN 15 ELSE 0)
        + (IF /\ latest.short_balance > 0 /\ latest.margin_balance > 0
              /\ latest.short_balance * 5 < latest.margin_balance
           THEN 25 ELSE 0)

\* scoreInstitutional(institutionalData).  The weighted sum is kept in
\* hundredths, so that Math.round is RoundDiv(., 100).
scoreInstitutionalData(d) ==
    IF Len(d) < 3
    THEN [computed |-> TRUE, threw |-> FALSE, error |-> TRUE, score |-> 0,
          sentiment |-> "", details |-> <<>>]
    ELSE
    LET foreignConsecutiveBuy == countConsecutive(d, "foreign_net")
        sum5 == foreign5DaySum(d)
        foreignScore ==
            Min(100,
                (IF foreignConsecutiveBuy >= 3 THEN 50
                 ELSE IF foreignConsecutiveBuy >= 2 THEN 30 ELSE 0)
                + (IF sum5 > 1000 THEN 30 ELSE IF sum5 > 500 THEN 15 ELSE 0)
                + (IF d[1].foreign_net > 0 THEN 20 ELSE 0))
        trustConsecutiveBuy == countConsecutive(d, "trust_net")
        trustScore ==
            Min(100,
                (IF trustConsecutiveBuy >= 3 THEN 50
                 ELSE IF trustConsecutiveBuy >= 2 THEN 30 ELSE 0)
                + (IF d[1].trust_net > 500 THEN 30
                   ELSE IF d[1].trust_net > 100 THEN 15 ELSE 0)
                + (IF d[1].trust_net > 0 THEN 20 ELSE 0))
        dealerConsecutive == countConsecutive(d, "dealer_net")
        dealerScore ==
            Min(100,
                (IF d[1].dealer_net > 0 THEN 50 ELSE 0)
                + (IF d[1].dealer_net > 500 THEN 30 ELSE 0)
                + (IF dealerConsecutive >= 2 THEN 20 ELSE 0))
        marginScore == Min(100, Max(0, marginScoreUnclamped(d)))
        score == RoundDiv(foreignScore * 40 + trustScore * 35
                          + dealerScore * 15 + marginScore * 10, 100)
    IN  [computed |-> TRUE, threw |-> FALSE, error |-> FALSE,
         score |-> Min(100, Max(0, score)),
         sentiment |-> sentimentOf(score),
         details |-> <<foreignScore, trustScore, dealerScore, marginScore>>]

InstInit ==
    /\ institutionalData \in FlowHistories
    /\ institutionalResult = NotComputed
    /\ CoreIdle /\ ExtIdleExcept("inst")

ScoreFlows ==
    /\ ~institutionalResult.computed
    /\ institutionalResult' = scoreInstitutionalData(institutionalData)
    /\ UNCHANGED institutionalData
    /\ UNCHANGED <<btVars, cmpVars, ddVars, scVars>>
    /\ ExtUnchangedExcept("inst")

SpecInstitutional == InstInit /\ [][ScoreFlows]_vars

\* The 5 most recent days each have foreign net buying of at least 600
\* shares and positive trust and dealer net flow.
C19_FiveStrongDays(d) ==
    /\ Len(d) >= 5
    /\ \A j \in 1..5 :
          d[j].foreign_net >= 600 /\ d[j].trust_net > 0 /\ d[j].dealer_net > 0

\* C19: for every flow history whose 5 most recent days each have foreign
\* net buying of at least 600 shares and positive trust and dealer net flow,
\* scoreInstitutional returns a score of at least 60 and the sentiment
\* "healthy" or "strong", whatever the margin and short balances are.
C19_StrongFlowScoresHealthy ==
    (institutionalResult.computed /\ C19_FiveStrongDays(institutionalData)) =>
        /\ ~institutionalResult.error
        /\ institutionalResult.score >= 60
        /\ institutionalResult.sentiment \in {"healthy", "strong"}

\* Five strong days scored with the margin balance rising and the short
\* balance high against it: the margin sub-score is at its lowest and the
\* sentiment is "healthy", not "strong".
C19_Witness ==
    /\ institutionalResult.computed
    /\ C19_FiveStrongDays(institutionalData)
    /\ institutionalData[1].margin_balance > institutionalData[2].margin_balance
    /\ institutionalResult.details[4] = 35
    /\ institutionalResult.sentiment = "healthy"

--------------------------------------------------------------------------
(* scoreFundamental on the snapshot itself *)

\* A field of the snapshot is a JavaScript value: undefined (the field is
\* absent), null, a number, NaN, or a value that raises a TypeError when it
\* is compared or subtracted (a Symbol).
Js(kind) == [k |-> kind, v |-> 0]
Num(n)   == [k |-> "number", v |-> n]

\* The snapshots scored: growth rates in percent, EPS in tenths.
Snapshots ==
    { [present |-> FALSE] }
    \cup
    { [present |-> TRUE, revenueGrowthYoY |-> yoy, revenueGrowthMoM |-> mom,
       eps |-> e, epsPrevYear |-> ep, peRatio |-> pe] :
        yoy \in {Js("undefined"), Js("null"), Js("symbol"), Num(40), Num(20), Num(3), Num(-20)},
        mom \in {Js("undefined"), Js("null"), Num(25), Num(5), Num(-15)},
        e   \in {Js("undefined"), Js("null"), Js("NaN"), Js("symbol"), Num(14), Num(10), Num(7)},
        ep  \in {Js("undefined"), Js("null"), Js("symbol"), Num(0), Num(10)},
        pe  \in {Js("undefined"), Js("null"), Num(-1), Num(8), Num(18), Num(40)} }

\* x !== undefined && x !== null
Present(x) == x.k \notin {"undefined", "null"}

\* x > n and x < n for a number n.  null converts to 0; undefined and NaN
\* convert to NaN, which makes every comparison false.
JsGt(x, n) ==
    /\ x.k \notin {"undefined", "NaN"}
    /\ (IF x.k = "number" THEN x.v ELSE 0) > n
JsLt(x, n) ==
    /\ x.k \notin {"undefined", "NaN"}
    /\ (IF x.k = "number" THEN x.v ELSE 0) < n

revenueScore(yoy) ==
    IF ~Present(yoy) THEN 50
    ELSE IF JsGt(yoy, 30) THEN 100
    ELSE IF JsGt(yoy, 15) THEN 80
    ELSE IF JsGt(yoy, 5) THEN 65
    ELSE IF JsGt(yoy, 0) THEN 55
    ELSE IF JsGt(yoy, -10) THEN 35
    ELSE 15

momScore(mom) ==
    IF ~Present(mom) THEN 50
    ELSE IF JsGt(mom, 20) THEN 90
    ELSE IF JsGt(mom, 10) THEN 75
    ELSE IF JsGt(mom, 0) THEN 60
    ELSE IF JsGt(mom, -10) THEN 40
    ELSE 20

\* eps !== undefined && epsPrev !== undefined && epsPrev > 0
epsUsable(e, ep) == e.k # "undefined" /\ ep.k # "undefined" /\ JsGt(ep, 0)

\* epsGrowth = ((eps - epsPrev) / epsPrev) * 100 is compared with g as
\* (eps - epsPrev) * 100 > g * epsPrev, epsPrev being positive.
epsScore(e, ep) ==
    IF ~epsUsable(e, ep) THEN 50
    ELSE LET growthGt(g) == /\ e.k # "NaN"
                            /\ ((IF e.k = "number" THEN e.v ELSE 0) - ep.v) * 100
                                  > g * ep.v
         IN  IF growthGt(30) THEN 100
             ELSE IF growthGt(15) THEN 80
             ELSE IF growthGt(0) THEN 65
             ELSE IF growthGt(-15) THEN 35
             ELSE 15

peScore(pe) ==
    IF ~(Present(pe) /\ JsGt(pe, 0)) THEN 50
    ELSE IF JsLt(pe, 10) THEN 85
    ELSE IF JsLt(pe, 15) THEN 75
    ELSE IF JsLt(pe, 20) THEN 60
    ELSE IF JsLt(pe, 30) THEN 45
    ELSE 25

\* The body of the try block raises a TypeError when it compares or
\* subtracts a Symbol; && does not evaluate its right side when the left
\* side is false.
fundamentalRaises(fd) ==
    \/ fd.revenueGrowthYoY.k = "symbol"
    \/ fd.revenueGrowthMoM.k = "symbol"
    \/ fd.eps.k # "undefined" /\ fd.epsPrevYear.k = "symbol"
    \/ fd.eps.k = "symbol" /\ epsUsable(fd.eps, fd.epsPrevYear)
    \/ fd.peRatio.k = "symbol"

\* The result of the try block: the weighted sum, kept in hundredths,
\* clamped and rounded.
fundamentalScored(fd) ==
    LET details == [revenueScore |-> revenueScore(fd.revenueGrowthYoY),
                    momScore     |-> momScore(fd.revenueGrowthMoM),
                    epsScore     |-> epsScore(fd.eps, fd.epsPrevYear),
                    peScore      |-> peScore(fd.peRatio)]
        score   == details.revenueScore * 40 + details.momScore * 15
                   + details.epsScore * 30 + details.peScore * 15
    IN  [computed |-> TRUE, threw |-> FALSE, error |-> FALSE,
         score |-> RoundDiv(Min(10000, Max(0, score)), 100),
         sentiment |-> "", details |-> details]

\* scoreFundamental(fundamentalData)
scoreFundamentalUncaught(fd) ==
    IF ~fd.present
    THEN [computed |-> TRUE, threw |-> FALSE, error |-> FALSE, score |-> 50,
          sentiment |-> "", details |-> <<>>]
    ELSE IF fundamentalRaises(fd)
    THEN [computed |-> TRUE, threw |-> TRUE, error |-> TRUE, score |-> 0,
          sentiment |-> "", details |-> <<>>]
    ELSE fundamentalScored(fd)

scoreFundamentalData(fd) ==
    IF ~fd.present
    THEN [computed |-> TRUE, threw |-> FALSE, error |-> FALSE, score |-> 50,
          sentiment |-> "", details |-> <<>>]
    ELSE IF fundamentalRaises(fd)
    THEN [computed |-> TRUE, threw |-> FALSE, error |-> TRUE, score |-> 50,
          sentiment |-> "", details |-> <<>>]
    ELSE fundamentalScored(fd)

FundInit ==
    /\ fundamentalData \in Snapshots
    /\ fundamentalResult = NotComputed
    /\ CoreIdle /\ ExtIdleExcept("fund")

ScoreSnapshot ==
    /\ ~fundamentalResult.computed
    /\ fundamentalResult' = scoreFundamentalData(fundamentalData)
    /\ UNCHANGED fundamentalData
    /\ UNCHANGED <<btVars, cmpVars, ddVars, scVars>>
    /\ ExtUnchangedExcept("fund")

SpecFundamental == FundInit /\ [][ScoreSnapshot]_vars

\* A field is missing: absent or null.
C13_Missing(x) == x.k \in {"undefined", "null"}

\* The input of the EPS growth component is missing: either EPS figure is
\* missing, or the prior-year EPS is not positive.
C13_EpsMissing(fd) ==
    \/ C13_Missing(fd.eps)
    \/ C13_Missing(fd.epsPrevYear)
    \/ fd.epsPrevYear.k = "number" /\ fd.epsPrevYear.v <= 0

\* C13 (as claimed): in scoreFundamental each of the four components whose
\* input is missing contributes exactly the neutral sub-score 50 to the
\* weighted total, whichever other inputs are present.
C13_MissingIsNeutral ==
    (fundamentalResult.computed /\ fundamentalData.present
        /\ ~fundamentalResult.error) =>
        LET fd == fundamentalData
            d  == fundamentalResult.details
        IN  /\ C13_Missing(fd.revenueGrowthYoY) => d.revenueScore = 50
            /\ C13_Missing(fd.revenueGrowthMoM) => d.momScore = 50
            /\ C13_EpsMissing(fd) => d.epsScore = 50
            /\ C13_Missing(fd.peRatio) => d.peScore = 50
            /\ fundamentalResult.score =
                  RoundDiv(d.revenueScore * 40 + d.momScore * 15
                           + d.epsScore * 30 + d.peScore * 15, 100)

\* The components other than EPS growth do as claimed, and so does EPS
\* growth when the latest EPS is absent rather than null.
C13_NeutralButNullEps ==
    (fundamentalResult.computed /\ fundamentalData.present
        /\ ~fundamentalResult.error) =>
        LET fd == fundamentalData
            d  == fundamentalResult.details
        IN  /\ C13_Missing(fd.revenueGrowthYoY) => d.revenueScore = 50
            /\ C13_Missing(fd.revenueGrowthMoM) => d.momScore = 50
            /\ (C13_EpsMissing(fd) /\ ~(fd.eps.k = "null" /\ JsGt(fd.epsPrevYear, 0)))
                  => d.epsScore = 50
            /\ (fd.eps.k = "null" /\ JsGt(fd.epsPrevYear, 0)) => d.epsScore = 15
            /\ C13_Missing(fd.peRatio) => d.peScore = 50

\* C17: scoreFundamental never raises an error: for every input it returns
\* a numeric score in [0, 100], and for an entirely absent snapshot that
\* score is exactly 50.
C17_NeverRaises ==
    fundamentalResult.computed =>
        /\ ~fundamentalResult.threw
        /\ fundamentalResult.score \in 0..100
        /\ ~fundamentalData.present => fundamentalResult.score = 50

\* An absent snapshot was scored 50.
C17_Witness ==
    /\ fundamentalResult.computed
    /\ ~fundamentalData.present
    /\ fundamentalResult.score = 50

\* A snapshot with a field that cannot be compared was scored: the error
\* was caught and the neutral score returned.
C17_WitnessCaught ==
    /\ fundamentalResult.computed
    /\ fundamentalData.present
    /\ fundamentalData.peRatio.k = "number"
    /\ fundamentalData.revenueGrowthYoY.k = "symbol"
    /\ fundamentalResult.error
    /\ fundamentalResult.score = 50

--------------------------------------------------------------------------
(* Two runs of the screener on dated records *)

\* run(date): the target date, as a day number.
TargetDate == 100

\* The daily_prices rows of one symbol, oldest first: nUpTo rows dated up to
\* the target date and nAfter rows dated after it.  A row carries, besides
\* close and volume, the score scoreTechnical computes for the window of
\* rows that ends with it (the indicators themselves are not expanded here).
PriceRowsOf(nUpTo, nAfter, tech, techAfter) ==
    [j \in 1..(nUpTo + nAfter) |->
        [date |-> TargetDate - nUpTo + j, close |-> 50, volume |-> 2000,
         technical |-> IF j <= nUpTo THEN tech ELSE techAfter]]

\* The institutional_trades rows of one symbol, oldest first.
FlowRowsOf(nUpTo, nAfter, row, rowAfter) ==
    [j \in 1..(nUpTo + nAfter) |->
        [date |-> TargetDate - nUpTo + j,
         flow |-> IF j <= nUpTo THEN row ELSE rowAfter]]

BuyingRow == FlowRow(600, 150, 1, 1000, 100)
SellingRow == FlowRow(-100, -50, -10, 2000, 500)

GoodSnapshot ==
    [present |-> TRUE, revenueGrowthYoY |-> Num(20), revenueGrowthMoM |-> Num(5),
     eps |-> Num(14), epsPrevYear |-> Num(10), peRatio |-> Num(18)]

\* What the database holds for one symbol.
Records(n, prices, flows) ==
    [symbol |-> n, codeLength |-> 4, prices |-> prices, flows |-> flows,
     fundamental |-> GoodSnapshot]

\* Databases of the first run: symbols 1 and 3 have the same records and so
\* the same scores; symbol 2 has 59 or 80 price rows.
FirstDatabases ==
    { << Records(1, PriceRowsOf(80, 0, 80, 80), FlowRowsOf(20, 0, BuyingRow, BuyingRow)),
         Records(2, PriceRowsOf(n2, 0, 90, 90), FlowRowsOf(20, 0, BuyingRow, BuyingRow)),
         Records(3, PriceRowsOf(80, 0, 80, 80), FlowRowsOf(20, 0, BuyingRow, BuyingRow)) >> :
        n2 \in {59, 80} }

\* Databases of the second run: the first one, with records dated after the
\* target date added to it.
LaterRecords(db, what) ==
    CASE what = "price row of symbol 1" ->
            [db EXCEPT ![1].prices = Append(@, [date |-> TargetDate + 1,
                          close |-> 60, volume |-> 2000, technical |-> 40])]
      [] what = "price row of symbol 2" ->
            [db EXCEPT ![2].prices = Append(@, [date |-> TargetDate + 1,
                          close |-> 60, volume |-> 2000, technical |-> 90])]
      [] what = "flow rows of symbol 3" ->
            [db EXCEPT ![3].flows = @ \o FlowRowsOf(0, 3, SellingRow, SellingRow)]
      [] what = "new symbol" ->
            Append(db, Records(4, PriceRowsOf(0, 80, 95, 95),
                               FlowRowsOf(0, 20, BuyingRow, BuyingRow)))
      [] OTHER -> db

Markets ==
    { [date |-> TargetDate, first |-> db, second |-> LaterRecords(db, what),
       config |-> cfg] :
        db \in FirstDatabases,
        what \in {"nothing", "price row of symbol 1", "price row of symbol 2",
                  "flow rows of symbol 3", "new symbol"},
        cfg \in {FilterDefaults, FilterTop5} }

\* rows.slice(-limit).reverse(): the limit most recent rows, most recent
\* first (ORDER BY date DESC LIMIT limit).
MostRecent(rows, limit) ==
    [j \in 1..Min(limit, Len(rows)) |-> rows[Len(rows) + 1 - j]]

\* What the queries of run(date) return for one symbol.  The query of
\* _applyFilters selects WHERE date <= ?; the queries of _getPriceHistory
\* and _getInstitutionalHistory select on the symbol alone.
QueryRows(rec, date) ==
    LET recent    == MostRecent(SelectSeq(rec.prices, LAMBDA r : r.date <= date), 5)
        priceData == MostRecent(rec.prices, 80)
        flowData ==
            [j \in 1..Min(20, Len(rec.flows)) |->
                MostRecent(rec.flows, 20)[j].flow]
        volumes   == [j \in 1..5 |-> IF j <= Len(recent) THEN recent[j].volume ELSE 0]
    IN  [symbol |-> rec.symbol, codeLength |-> rec.codeLength,
         filterQueryFails |-> FALSE,
         recentCount |-> Len(recent),
         recentVolume |-> volumes[1] + volumes[2] + volumes[3] + volumes[4] + volumes[5],
         latestClose |-> IF recent = <<>> THEN 0 ELSE recent[1].close,
         priceRows |-> Len(priceData),
         technical |-> IF priceData = <<>> THEN 0 ELSE priceData[1].technical,
         institutionalRows |-> Len(flowData),
         institutional |-> scoreInstitutionalData(flowData).score,
         fundamentalPresent |-> rec.fundamental.present,
         fundamental |-> scoreFundamentalData(rec.fundamental).score]

\* The database as run(date) sees it: the symbols _loadAllSymbols selects
\* (those with a price row dated up to the date), each with its query rows.
DatabaseAt(db, date, cfg) ==
    LET listed == SelectSeq(db, LAMBDA rec :
                      \E j \in 1..Len(rec.prices) : rec.prices[j].date <= date)
    IN  [rows |-> [n \in 1..Len(listed) |-> QueryRows(listed[n], date)],
         loadFails |-> FALSE, saveFails |-> FALSE, config |-> cfg]

\* The second call of run(date): the same screener on the second database.
\* The rows the first run wrote to screener_signals are still there.
Rerun ==
    /\ scPc = "done" /\ runNo = 1
    /\ runNo' = 2
    /\ previous' = results
    /\ universe' = DatabaseAt(market.second, market.date, market.config)
    /\ scPc' = "load"
    /\ allSymbols' = <<>> /\ filtered' = <<>> /\ analyzed' = <<>>
    /\ k' = 0 /\ results' = NoResults
    /\ UNCHANGED <<market, signals>>
    /\ UNCHANGED <<btVars, cmpVars, ddVars>>
    /\ ExtUnchangedExcept("rr")

RrInit ==
    /\ market \in Markets
    /\ runNo = 1 /\ previous = NoResults
    /\ universe = DatabaseAt(market.first, market.date, market.config)
    /\ scPc = "load"
    /\ allSymbols = <<>> /\ filtered = <<>> /\ analyzed = <<>>
    /\ k = 0 /\ signals = <<>> /\ results = NoResults
    /\ BtIdle /\ CmpIdle /\ DdIdle /\ ExtIdleExcept("rr")

RrNext == ScNext \/ Rerun

SpecTwoRuns == RrInit /\ [][RrNext]_vars

\* The records of symbol n dated up to the date.
C11_UpTo(db, n, date) ==
    IF n > Len(db) THEN <<>>
    ELSE << SelectSeq(db[n].prices, LAMBDA r : r.date <= date),
            SelectSeq(db[n].flows, LAMBDA r : r.date <= date) >>

\* The two databases agree on all records dated up to the target date.
C11_AgreeUpToDate ==
    \A n \in 1..Max(Len(market.first), Len(market.second)) :
        LET a == C11_UpTo(market.first, n, market.date)
            b == C11_UpTo(market.second, n, market.date)
        IN  \/ a = b
            \/ a = <<>> /\ b = << <<>>, <<>> >>
            \/ b = <<>> /\ a = << <<>>, <<>> >>

\* C11 (as claimed): for a run with target date D the scores, tiers and
\* ranks depend only on records dated on or before D: two histories that
\* agree on all records up to D give the same output for D.
C11_NoLookAhead ==
    (scPc = "done" /\ runNo = 2 /\ C11_AgreeUpToDate) => results = previous

--------------------------------------------------------------------------
(* calculatePerformance and _calculateMonthlyReturns *)

\* Trades of a ledger passed to calculatePerformance.
MaxLedger == 3

\* A trade as calculatePerformance reads it.  Dates are numbers yyyymmdd,
\* so that exitDate.slice(0, 7), the month, is exitDate \div 100; exitDate
\* 0 stands for a trade without exit date.  pnl is in whole units.
TradeKinds ==
    { [exitDate |-> d, pnl |-> p] :
        d \in {0, 20240115, 20240131, 20240205}, p \in {-500, 0, 800} }

\* The ledgers scored, with an equity curve that ends at the initial
\* capital plus the P&L of the trades.
Ledgers ==
    { [trades |-> t, initialCapital |-> 100000,
       equityCurve |-> [j \in 1..Len(t) |-> 100000 + t[j].pnl]] :
        t \in UNION { [1..n -> TradeKinds] : n \in 0..MaxLedger } }

\* trades.filter(t => t.exitDate)
completedTrades(tradeList) == SelectSeq(tradeList, LAMBDA t : t.exitDate # 0)

\* The trades _calculateMonthlyReturns skips: !trade.exitDate || !trade.pnl
skipped(trade) == trade.exitDate = 0 \/ trade.pnl = 0

\* _calculateMonthlyReturns(tradeList, initialCapital): one bucket per month
\* that has a trade which is not skipped, sorted by month; returnPct is in
\* hundredths of a percent.
calculateMonthlyReturns(tradeList, initialCapital) ==
    LET counted == SelectSeq(tradeList, LAMBDA t : ~skipped(t))
        months  == {counted[j].exitDate \div 100 : j \in 1..Len(counted)}
        pnlTo[j \in 0..Len(counted)] ==
            [m \in months |->
                IF j = 0 THEN 0
                ELSE pnlTo[j - 1][m]
                     + (IF counted[j].exitDate \div 100 = m
                        THEN counted[j].pnl ELSE 0)]
        bucket(m) ==
            [month |-> m, pnl |-> pnlTo[Len(counted)][m],
             trades |-> Cardinality({j \in 1..Len(counted) :
                                        counted[j].exitDate \div 100 = m}),
             returnPct |-> RoundDiv(pnlTo[Len(counted)][m] * 10000, initialCapital)]
    IN  [p \in 1..Cardinality(months) |->
            bucket(CHOOSE m \in months :
                      Cardinality({x \in months : x < m}) = p - 1)]

\* calculatePerformance(trades, equityCurve, config): the counts, the total
\* return (totalReturnPct in hundredths of a percent), the drawdown and the
\* monthly returns of the report.
calculatePerformance(tradeList, curveIn, initialCapital) ==
    LET completed   == completedTrades(tradeList)
        finalEquity == IF curveIn = <<>> \/ Last(curveIn) = 0
                       THEN initialCapital ELSE Last(curveIn)
    IN  IF Len(completed) = 0
        THEN [computed |-> TRUE, totalTrades |-> 0, winCount |-> 0,
              loseCount |-> 0, totalReturn |-> 0, totalReturnPct |-> 0,
              maxDrawdown |-> 0, monthlyReturns |-> <<>>]
        ELSE [computed |-> TRUE,
              totalTrades |-> Len(completed),
              winCount |-> Len(SelectSeq(completed, LAMBDA t : t.pnl > 0)),
              loseCount |-> Len(SelectSeq(completed, LAMBDA t : t.pnl <= 0)),
              totalReturn |-> finalEquity - initialCapital,
              totalReturnPct |->
                  RoundDiv((finalEquity - initialCapital) * 10000, initialCapital),
              maxDrawdown |-> calculateMaxDrawdown(curveIn).maxDrawdown,
              monthlyReturns |-> calculateMonthlyReturns(tradeList, initialCapital)]

PerfInit ==
    /\ ledger \in Ledgers
    /\ performance = NotComputed
    /\ CoreIdle /\ ExtIdleExcept("perf")

ComputePerformance ==
    /\ ~performance.computed
    /\ performance' = calculatePerformance(ledger.trades, ledger.equityCurve,
                                           ledger.initialCapital)
    /\ UNCHANGED ledger
    /\ UNCHANGED <<btVars, cmpVars, ddVars, scVars>>
    /\ ExtUnchangedExcept("perf")

SpecPerformance == PerfInit /\ [][ComputePerformance]_vars

\* The closed trades of the ledger whose exit date lies in month m.
C15_ClosedIn(m) ==
    {j \in 1..Len(ledger.trades) :
        ledger.trades[j].exitDate # 0 /\ ledger.trades[j].exitDate \div 100 = m}

\* The sum of f over the buckets of the monthly returns.
C15_Total(field) ==
    LET mr == performance.monthlyReturns
        to[j \in 0..Len(mr)] == IF j = 0 THEN 0 ELSE to[j - 1] + mr[j][field]
    IN  to[Len(mr)]

\* The P&L of the closed trades of the ledger.
C15_LedgerPnl ==
    LET t == ledger.trades
        to[j \in 0..Len(t)] ==
            IF j = 0 THEN 0
            ELSE to[j - 1] + (IF t[j].exitDate # 0 THEN t[j].pnl ELSE 0)
    IN  to[Len(t)]

\* C15 (as claimed): monthly returns are grouped by exit month: every
\* closed trade of the ledger is counted in exactly one bucket, that of the
\* month of its exit date, so the trade counts of the buckets add up to
\* totalTrades and their P&L adds up to the P&L of the ledger.
C15_MonthlyBuckets ==
    performance.computed =>
        LET mr == performance.monthlyReturns
        IN  /\ \A j \in 1..Len(ledger.trades) :
                  ledger.trades[j].exitDate # 0 =>
                      \E b \in 1..Len(mr) :
                          mr[b].month = ledger.trades[j].exitDate \div 100
            /\ \A b \in 1..Len(mr) :
                  mr[b].trades = Cardinality(C15_ClosedIn(mr[b].month))
            /\ \A a, b \in 1..Len(mr) : a # b => mr[a].month # mr[b].month
            /\ C15_Total("trades") = performance.totalTrades
            /\ C15_Total("pnl") = C15_LedgerPnl

\* What holds of the buckets: they are grouped by exit month and their P&L
\* adds up to the P&L of the ledger; their counts leave out the closed
\* trades whose P&L is 0.
C15_BucketsButZeroPnl ==
    performance.computed =>
        LET mr == performance.monthlyReturns
        IN  /\ \A b \in 1..Len(mr) :
                  mr[b].trades =
                      Cardinality({j \in C15_ClosedIn(mr[b].month) :
                                      ledger.trades[j].pnl # 0})
            /\ \A a, b \in 1..Len(mr) : a < b => mr[a].month < mr[b].month
            /\ C15_Total("pnl") = C15_LedgerPnl

--------------------------------------------------------------------------
(* BacktestEngine.run and runBatch *)

\* Symbols of a batch.
MaxBatch == 3

\* The bars below which run() refuses a history.
MinBars == 30

\* What run() meets for a symbol: whether the query of _loadPriceData
\* fails, the number of bars it returns, and the ledger and equity curve
\* _simulate produces from them.
BatchEntry(fails, bars, tradeList, curveIn) ==
    [loadFails |-> fails, tradingDays |-> bars, trades |-> tradeList,
     equityCurve |-> curveIn]

BatchEntries ==
    { BatchEntry(TRUE, 0, <<>>, <<>>),
      BatchEntry(FALSE, 29, <<>>, <<>>),
      BatchEntry(FALSE, 30, <<>>, <<100000>>),
      BatchEntry(FALSE, 30, << [exitDate |-> 20240115, pnl |-> 800] >>,
                 <<100000, 100800>>),
      BatchEntry(FALSE, 60, << [exitDate |-> 20240131, pnl |-> 800] >>,
                 <<100000, 99000, 100800>>),
      BatchEntry(FALSE, 60, << [exitDate |-> 20240205, pnl |-> -500] >>,
                 <<100000, 99500>>),
      BatchEntry(FALSE, 60, << [exitDate |-> 20240115, pnl |-> 800],
                               [exitDate |-> 20240205, pnl |-> 800] >>,
                 <<100000, 100800, 101600>>) }

Batches ==
    { [symbols |-> s, initialCapital |-> 100000] :
        s \in UNION { [1..n -> BatchEntries] : n \in 0..MaxBatch } }

\* run({ symbol, ... }): throws when the data cannot be loaded or has fewer
\* than 30 bars, otherwise returns the report.
run(symbol, entry, initialCapital) ==
    IF entry.loadFails \/ entry.tradingDays < MinBars
    THEN [threw |-> TRUE, symbol |-> symbol, tradingDays |-> entry.tradingDays,
          performance |-> NotComputed]
    ELSE [threw |-> FALSE, symbol |-> symbol, tradingDays |-> entry.tradingDays,
          performance |-> calculatePerformance(entry.trades, entry.equityCurve,
                                               initialCapital)]

\* The body of the loop of runBatch: the report is pushed, or the
\* exception of run() is caught and logged.  "aborted" tells that an
\* exception left the loop.
collectUncaught(reports, outcome) ==
    IF outcome.threw THEN [aborted |-> TRUE, results |-> reports]
    ELSE [aborted |-> FALSE, results |-> Append(reports, outcome)]

collect(reports, outcome) ==
    IF outcome.threw THEN [aborted |-> FALSE, results |-> reports]
    ELSE [aborted |-> FALSE, results |-> Append(reports, outcome)]

\* results.sort((a, b) => b.performance.totalReturnPct -
\* a.performance.totalReturnPct); the sort is stable.
sortByReturnDesc(s) ==
    LET Before(n) ==
            {m \in 1..Len(s) :
                \/ s[m].performance.totalReturnPct > s[n].performance.totalReturnPct
                \/ /\ s[m].performance.totalReturnPct = s[n].performance.totalReturnPct
                   /\ m < n}
    IN  [p \in 1..Len(s) |-> s[CHOOSE n \in 1..Len(s) : Cardinality(Before(n)) = p - 1]]

BatchInit ==
    /\ batch \in Batches
    /\ batchPc = IF batch.symbols = <<>> THEN "sort" ELSE "loop"
    /\ batchK = 0
    /\ batchResults = <<>>
    /\ CoreIdle /\ ExtIdleExcept("batch")

\* One iteration of the loop over the symbols.
RunSymbol ==
    /\ batchPc = "loop"
    /\ batchK < Len(batch.symbols)
    /\ LET outcome == run(batchK + 1, batch.symbols[batchK + 1],
                          batch.initialCapital)
           step    == collect(batchResults, outcome)
       IN  IF step.aborted
           THEN batchPc' = "failed" /\ UNCHANGED <<batchK, batchResults>>
           ELSE /\ batchResults' = step.results
                /\ batchK' = batchK + 1
                /\ batchPc' = IF batchK + 1 < Len(batch.symbols)
                              THEN "loop" ELSE "sort"
    /\ UNCHANGED batch
    /\ UNCHANGED <<btVars, cmpVars, ddVars, scVars>>
    /\ ExtUnchangedExcept("batch")

\* The sort and the return.
SortReports ==
    /\ batchPc = "sort"
    /\ batchResults' = sortByReturnDesc(batchResults)
    /\ batchPc' = "done"
    /\ UNCHANGED <<batch, batchK>>
    /\ UNCHANGED <<btVars, cmpVars, ddVars, scVars>>
    /\ ExtUnchangedExcept("batch")

BatchNext == RunSymbol \/ SortReports

\* runBatch is one call: a step that can be taken is taken.
SpecBatch == BatchInit /\ [][BatchNext]_vars /\ WF_vars(BatchNext)

\* The requested symbols whose backtest succeeds.
C12_Succeeds(n) ==
    /\ ~batch.symbols[n].loadFails
    /\ batch.symbols[n].tradingDays >= 30

\* What runBatch returned: one report for each requested symbol whose
\* backtest succeeded and none for the others, ordered by total return
\* percentage, highest first.
C12_Returned ==
    /\ \A n \in 1..Len(batch.symbols) :
          Cardinality({r \in 1..Len(batchResults) : batchResults[r].symbol = n})
              = IF C12_Succeeds(n) THEN 1 ELSE 0
    /\ \A r \in 1..Len(batchResults) :
          /\ batchResults[r].symbol \in 1..Len(batch.symbols)
          /\ batchResults[r].performance =
                calculatePerformance(batch.symbols[batchResults[r].symbol].trades,
                                     batch.symbols[batchResults[r].symbol].equityCurve,
                                     batch.initialCapital)
    /\ \A r \in 1..(Len(batchResults) - 1) :
          batchResults[r].performance.totalReturnPct
              >= batchResults[r + 1].performance.totalReturnPct

\* C12: runBatch always completes: it returns exactly one report for each
\* requested symbol whose backtest succeeded, omits every symbol whose
\* backtest throws without affecting the others, and orders the reports by
\* total return percentage, highest first.
C12_BatchCompletes ==
    /\ [](batchPc # "failed")
    /\ <>(batchPc = "done")
    /\ [](batchPc = "done" => C12_Returned)

\* A batch has returned in which a symbol with too few bars stood between
\* two that succeeded, and the later one, with the higher return, comes
\* first.
C12_Witness ==
    /\ batchPc = "done"
    /\ Len(batch.symbols) = 3
    /\ batch.symbols[2].tradingDays = 29
    /\ Len(batchResults) = 2
    /\ batchResults[1].symbol = 3
    /\ batchResults[2].symbol = 1
    /\ batchResults[1].performance.totalReturnPct
          > batchResults[2].performance.totalReturnPct

--------------------------------------------------------------------------
(* The entry rules on short series *)

\* Bars of a series passed to shouldEntry.
MaxSeries == 23

\* The strategies asked: periods in bars, volumeMultiple in tenths.
EntryStrategies ==
    { [type |-> "MA_CROSS", shortPeriod |-> 1, longPeriod |-> 2],
      [type |-> "MA_CROSS", shortPeriod |-> 2, longPeriod |-> 3],
      [type |-> "MA_CROSS", shortPeriod |-> 4, longPeriod |-> 2],
      [type |-> "VAO_BREAKOUT", volumeMultiple |-> 15, priceChangeMin |-> 2] }

\* Series, most recent first: the bar at the index and the bar before it
\* vary, the other bars are all alike.
EntryCases ==
    { [strategy |-> st, index |-> ix,
       data |-> [j \in 1..n |->
                    IF j = ix + 1 THEN [close |-> c0, volume |-> v0]
                    ELSE IF j = ix + 2 THEN [close |-> c1, volume |-> 1000]
                    ELSE [close |-> c2, volume |-> 1000]]] :
        st \in EntryStrategies, n \in 0..MaxSeries, ix \in 0..2,
        c0 \in {8, 12}, v0 \in {1000, 3000}, c1 \in {8, 10}, c2 \in {8, 12} }

\* The bars the loop of _sma or _avgVolume adds up from startIndex.
barsSummed(d, startIndex, period) ==
    Max(0, Min(startIndex + period, Len(d)) - startIndex)

\* The averages a rule computes when its guard lets it through, each with
\* its period and the number of bars it was computed over.
averagesOf(s, d, index) ==
    IF s.type = "VAO_BREAKOUT"
    THEN IF index + 20 >= Len(d) THEN <<>>
         ELSE << [period |-> 5, bars |-> barsSummed(d, index, 5)] >>
    ELSE IF index + s.longPeriod + 1 >= Len(d) THEN <<>>
         ELSE << [period |-> s.shortPeriod, bars |-> barsSummed(d, index, s.shortPeriod)],
                 [period |-> s.longPeriod, bars |-> barsSummed(d, index, s.longPeriod)],
                 [period |-> s.shortPeriod, bars |-> barsSummed(d, index + 1, s.shortPeriod)],
                 [period |-> s.longPeriod, bars |-> barsSummed(d, index + 1, s.longPeriod)] >>

\* The rule raises a TypeError when it reads a field of a bar that is not
\* there (data[index] or data[index + 1] of the VAO rule).
entryRaises(s, d, index) ==
    /\ s.type = "VAO_BREAKOUT"
    /\ ~(index + 20 >= Len(d))
    /\ index + 2 > Len(d)

EntryInit ==
    /\ entryCase \in EntryCases
    /\ entryResult = NotComputed
    /\ CoreIdle /\ ExtIdleExcept("entry")

AskEntry ==
    /\ ~entryResult.computed
    /\ LET s == entryCase.strategy
           d == entryCase.data
           raises == entryRaises(s, d, entryCase.index)
       IN  entryResult' =
              [computed |-> TRUE, threw |-> raises,
               entry |-> IF raises THEN FALSE ELSE shouldEntry(s, d, entryCase.index),
               windows |-> averagesOf(s, d, entryCase.index)]
    /\ UNCHANGED entryCase
    /\ UNCHANGED <<btVars, cmpVars, ddVars, scVars>>
    /\ ExtUnchangedExcept("entry")

SpecEntry == EntryInit /\ [][AskEntry]_vars

\* C18 (as claimed): an entry rule never raises an error and never fires on
\* a bar with fewer bars behind it than its lookback: when it fires, every
\* moving average and average volume it compared was computed over as many
\* bars as its period.
C18_NoEntryOnShortSeries ==
    entryResult.computed =>
        /\ ~entryResult.threw
        /\ entryResult.entry =>
              \A w \in 1..Len(entryResult.windows) :
                  entryResult.windows[w].bars = entryResult.windows[w].period

\* What holds: the rules never raise, the VAO rule and the MA cross rule
\* with shortPeriod <= longPeriod + 1 never compare an average over fewer
\* bars than its period.
C18_HoldsForOrderedPeriods ==
    entryResult.computed =>
        /\ ~entryResult.threw
        /\ (\/ entryCase.strategy.type = "VAO_BREAKOUT"
            \/ entryCase.strategy.shortPeriod <= entryCase.strategy.longPeriod + 1)
              => \A w \in 1..Len(entryResult.windows) :
                    entryResult.windows[w].bars = entryResult.windows[w].period

--------------------------------------------------------------------------
(* calculateMA and calculateMASystem *)

\* Closes of a series passed to calculateMASystem.
MaxCloses == 61

\* Series of closes, most recent first, in hundredths: the most recent
\* bar, the rest of the 5 most recent, and the bars up to the 10th, the
\* 20th and beyond each have one close.
CloseSeries ==
    { [j \in 1..n |-> IF j = 1 THEN a0
                      ELSE IF j <= 5 THEN a
                      ELSE IF j <= 10 THEN b
                      ELSE IF j <= 20 THEN c ELSE d] :
        n \in 59..MaxCloses, a0 \in {2000, 2004}, a \in {1900, 2000, 2100},
        b \in {1900, 2000, 2100}, c \in {1900, 2000, 2100},
        d \in {1900, 2000, 2100} }

\* A sum that leaves out the most recent value.
sumOfEarlier(closes, period) ==
    LET to[j \in 1..period] == IF j = 1 THEN 0 ELSE to[j - 1] + closes[j]
    IN  to[period]

\* The sum average() divides by period: the period most recent closes.
sumOfCloses(closes, period) ==
    LET to[j \in 0..period] == IF j = 0 THEN 0 ELSE to[j - 1] + closes[j]
    IN  to[period]

\* calculateMA(data, period).value: Math.round(value * 100) / 100, in
\* hundredths.
calculateMA(closes, period) == RoundDiv(sumOfCloses(closes, period), period)

\* calculateMASystem(data): throws below 60 bars; the alignment compares
\* the value fields of the four calculateMA results.
calculateMASystem(closes) ==
    IF Len(closes) < 60
    THEN [computed |-> TRUE, threw |-> TRUE, ma5 |-> 0, ma10 |-> 0,
          ma20 |-> 0, ma60 |-> 0, alignment |-> ""]
    ELSE LET ma5  == calculateMA(closes, 5)
             ma10 == calculateMA(closes, 10)
             ma20 == calculateMA(closes, 20)
             ma60 == calculateMA(closes, 60)
             bullish == ma5 > ma10 /\ ma10 > ma20 /\ ma20 > ma60
             bearish == ma5 < ma10 /\ ma10 < ma20 /\ ma20 < ma60
         IN  [computed |-> TRUE, threw |-> FALSE, ma5 |-> ma5, ma10 |-> ma10,
              ma20 |-> ma20, ma60 |-> ma60,
              alignment |-> IF bullish THEN "BULLISH"
                            ELSE IF bearish THEN "BEARISH" ELSE "MIXED"]

MaInit ==
    /\ maData \in CloseSeries
    /\ maSystem = NotComputed
    /\ CoreIdle /\ ExtIdleExcept("ma")

ComputeMASystem ==
    /\ ~maSystem.computed
    /\ maSystem' = calculateMASystem(maData)
    /\ UNCHANGED maData
    /\ UNCHANGED <<btVars, cmpVars, ddVars, scVars>>
    /\ ExtUnchangedExcept("ma")

SpecMASystem == MaInit /\ [][ComputeMASystem]_vars

\* 60 times the simple mean of the n most recent closes (n divides 60).
C20_Mean60(n) ==
    LET to[j \in 0..n] == IF j = 0 THEN 0 ELSE to[j - 1] + maData[j]
    IN  to[n] * (60 \div n)

\* C20 (as claimed): the alignment is BULLISH iff MA5 > MA10 > MA20 > MA60
\* strictly, BEARISH iff MA5 < MA10 < MA20 < MA60 strictly, and MIXED in
\* every other case, MAn being the simple mean of the n most recent closes.
C20_Alignment ==
    (maSystem.computed /\ ~maSystem.threw) =>
        LET up   == /\ C20_Mean60(5) > C20_Mean60(10)
                    /\ C20_Mean60(10) > C20_Mean60(20)
                    /\ C20_Mean60(20) > C20_Mean60(60)
            down == /\ C20_Mean60(5) < C20_Mean60(10)
                    /\ C20_Mean60(10) < C20_Mean60(20)
                    /\ C20_Mean60(20) < C20_Mean60(60)
        IN  /\ maSystem.alignment = "BULLISH" <=> up
            /\ maSystem.alignment = "BEARISH" <=> down
            /\ maSystem.alignment = "MIXED" <=> (~up /\ ~down)

\* What holds: the alignment is that of the four values rounded to two
\* decimals; a BULLISH or BEARISH answer is never against the order of the
\* means, which may only be equal where the answer says strictly ordered.
C20_AlignmentOfRounded ==
    (maSystem.computed /\ ~maSystem.threw) =>
        /\ maSystem.alignment = "BULLISH" <=>
              (maSystem.ma5 > maSystem.ma10 /\ maSystem.ma10 > maSystem.ma20
               /\ maSystem.ma20 > maSystem.ma60)
        /\ maSystem.alignment = "BEARISH" <=>
              (maSystem.ma5 < maSystem.ma10 /\ maSystem.ma10 < maSystem.ma20
               /\ maSystem.ma20 < maSystem.ma60)
        /\ maSystem.alignment = "BULLISH" =>
              /\ C20_Mean60(5) >= C20_Mean60(10)
              /\ C20_Mean60(10) >= C20_Mean60(20)
              /\ C20_Mean60(20) >= C20_Mean60(60)

--------------------------------------------------------------------------
(* Further properties of calculateCompositeScore *)

\* The weighted sum in exact arithmetic, rounded to the nearest integer with
\* halves going up.
C24_ExactRounded(t, n, f) ==
    RoundDiv(t * WeightTechnical + n * WeightInstitutional
             + f * WeightFundamental, 100)

\* C24 (as claimed): totalScore equals technical x 0.40 + institutional x
\* 0.30 + fundamental x 0.30 rounded to the nearest integer, halves rounded
\* up, and the weights sum to exactly 1.0.
C24_WeightedRound ==
    /\ WeightTechnical + WeightInstitutional + WeightFundamental = 100
    /\ composite # NoComposite =>
          composite.totalScore = C24_ExactRounded(dims[1], dims[2], dims[3])

\* What holds of totalScore: it is the exact rounded sum or one below it,
\* and it is one below only where the exact sum ends in a half; the weights
\* sum to exactly 1.0 in doubles too.
C24_RoundedOrOneBelow ==
    /\ FloatSum(FloatTimes(1, WeightTechnical), FloatTimes(1, WeightInstitutional),
                FloatTimes(1, WeightFundamental)) = [q |-> 10, d |-> 0]
    /\ composite # NoComposite =>
          LET exact == C24_ExactRounded(dims[1], dims[2], dims[3])
              tenths == 4 * dims[1] + 3 * dims[2] + 3 * dims[3]
          IN  \/ composite.totalScore = exact
              \/ composite.totalScore = exact - 1 /\ tenths % 10 = 5

\* The tiers in their order.
C30_Rank(tier) ==
    CASE tier = "EXCLUDED" -> 0 [] tier = "TIER3" -> 1
      [] tier = "TIER2" -> 2 [] OTHER -> 3

\* The result for the dimensions with dimension j raised to v.
C30_Raised(j, v) ==
    LET up == [dims EXCEPT ![j] = v]
    IN  calculateCompositeScore(up[1], up[2], up[3])

\* C30: raising one dimension score while the other two stay fixed never
\* lowers totalScore and never moves the result to a lower tier.
C30_Monotone ==
    composite # NoComposite =>
        \A j \in 1..3 : \A v \in dims[j]..100 :
            /\ C30_Raised(j, v).totalScore >= composite.totalScore
            /\ C30_Rank(C30_Raised(j, v).tier) >= C30_Rank(composite.tier)

\* A result that one raised dimension lifts to a higher tier and a higher
\* totalScore.
C30_Witness ==
    /\ composite # NoComposite
    /\ \E j \in 1..3 : \E v \in dims[j]..100 :
          /\ C30_Raised(j, v).totalScore > composite.totalScore
          /\ C30_Rank(C30_Raised(j, v).tier) > C30_Rank(composite.tier)

--------------------------------------------------------------------------
(* Further properties of a screener run *)

\* C29: a symbol whose fundamental snapshot is absent is never tagged TIER1,
\* never gets the BUY recommendation and is never in the tier1 list,
\* whatever its technical and institutional scores are.
C29_AbsentSnapshotBelowTier1 ==
    /\ \A n \in 1..Len(analyzed) :
          ~universe.rows[analyzed[n].symbol].fundamentalPresent =>
              /\ analyzed[n].fundamental.score = 50
              /\ analyzed[n].composite.tier # "TIER1"
              /\ analyzed[n].composite.recommendation # "BUY"
    /\ scPc = "done" =>
          \A j \in 1..Len(results.tier1) :
              universe.rows[results.tier1[j].symbol].fundamentalPresent

\* A finished run that ranked a symbol without snapshot whose other two
\* scores and totalScore are high enough for TIER1: it is in tier2.
C29_Witness ==
    /\ scPc = "done"
    /\ \E j \in 1..Len(results.tier2) :
          /\ ~universe.rows[results.tier2[j].symbol].fundamentalPresent
          /\ results.tier2[j].technical.score >= Tier1MinDimension
          /\ results.tier2[j].institutional.score >= Tier1MinDimension
          /\ results.tier2[j].composite.totalScore >= Tier1Threshold

--------------------------------------------------------------------------
(* Further properties of a simulation *)

\* The sum of the realized P&L of the trades in the ledger.
C27_LedgerPnl ==
    LET to[j \in 0..Len(trades)] == IF j = 0 THEN 0 ELSE to[j - 1] + trades[j].pnl
    IN  to[Len(trades)]

\* How far the last equity point is from the initial capital plus the
\* ledger's P&L, in tenths.
C27_Gap ==
    LET gap == 10 * (Last(equityCurve) - config.initialCapital - C27_LedgerPnl)
    IN  IF gap >= 0 THEN gap ELSE -gap

\* The rounding the records can account for, in tenths: one half for the
\* equity point, and one half each for the cost and the pnl of every trade.
C27_Rounding == 5 + 10 * Len(trades)

\* C27 (as claimed): after every run the last equity-curve value equals the
\* initial capital plus the sum of the realized P&L of all trades, up to
\* rounding of the individual records, whether the last trade was closed by
\* an exit rule or by the forced end-of-period close.
C27_BooksBalance ==
    (btPc = "done" /\ equityCurve # <<>>) => C27_Gap <= C27_Rounding

\* What holds: the books balance after the runs that end flat; after a
\* forced close the last equity point exceeds the ledger by the sell
\* commission and tax of the forced trade.
C27_BalanceUnlessForced ==
    (btPc = "done" /\ equityCurve # <<>>) =>
        IF trades # <<>> /\ Last(trades).exitReason = "forcedClose"
        THEN LET t == Last(trades)
                 fees == (t.exitPrice * t.shares * (config.commission + config.tax))
                             \div 1000
                 gap == 10 * (Last(equityCurve) - config.initialCapital
                                - C27_LedgerPnl) - fees
             IN  gap <= C27_Rounding /\ -gap <= C27_Rounding
        ELSE C27_Gap <= C27_Rounding

\* The highest price observed on the bars after the entry bar, up to bar
\* `to` (0 when there is none): a bar's high, or its close when it has none.
C28_HighAfter(from, to) ==
    LET seen(d) == IF data[d].high # 0 THEN data[d].high ELSE data[d].close
    IN  IF to <= from THEN 0
        ELSE CHOOSE h \in {seen(d) : d \in (from + 1)..to} :
                \A d \in (from + 1)..to : seen(d) <= h

\* C28 (as claimed): the running high-since-entry of an open position never
\* exceeds the maximum of the entry price and the highs of the bars after
\* the entry bar, so no price reached before the fill contributes to it.
C28_HighSinceFill ==
    (btPc = "loop" /\ position.open) =>
        /\ highestSinceEntry * 100 <= Max(position.entryPrice,
                                          100 * C28_HighAfter(position.entryDate, i))

\* What holds: the running high is built from the entry bar onwards, the
\* entry bar's own high included, and from no bar before it.
C28_HighSinceEntryBar ==
    (btPc = "loop" /\ position.open) =>
        highestSinceEntry = HighestBetween(position.entryDate, i)

\* A trade closed by the trailing stop although no price after the fill was
\* above the entry price: the entry bar's high armed the stop.
C28_ArmedByEntryBar ==
    \E n \in 1..Len(trades) :
        /\ trades[n].exitReason = "trailingStop"
        /\ 100 * C28_HighAfter(trades[n].entryDate, trades[n].exitDate)
               <= trades[n].entryPrice

--------------------------------------------------------------------------
(* scoreTechnical on the price rows themselves: calculateVAO, calculateMTM,
   calculateMASystem and _evaluateEntrySignal *)

\* The longest price series passed in.
MaxTechBars == 60

\* Price rows, most recent first, prices in hundredths: today's row, then
\* yesterday's, then rows that all closed at 100.00 on a volume of 900,
\* but for the twelfth, which closed at dc (a dip ten rows before
\* yesterday, or none); high = 0 is a row without high.  totalShares = 0
\* is options without totalShares.
TechInputs ==
    { [data |-> [j \in 1..n |->
                    IF j = 1 THEN [close |-> tc, open |-> tc + gap,
                                   high |-> 0, volume |-> tv]
                    ELSE IF j = 2 THEN [close |-> yc, open |-> yc - gap,
                                        high |-> yh, volume |-> 900]
                    ELSE [close |-> IF j = 12 THEN dc ELSE 10000,
                          open |-> 10000, high |-> 0, volume |-> 900]],
       totalShares |-> shares] :
        n \in 59..MaxTechBars,
        tc \in {9800, 10100, 10300, 10500, 10600},
        yc \in {9900, 10000}, yh \in {0, 10400}, gap \in {-50, 50},
        tv \in {900, 1900, 2000, 3000}, shares \in {0, 20000},
        dc \in {7000, 10000} }
    \cup
    { [data |-> [j \in 1..n |-> [close |-> 10000 - 10 * j, open |-> 10000,
                                 high |-> 0, volume |-> 900]],
       totalShares |-> 0] : n \in {19, 20} }

\* calculateVAO(data, { totalShares }) with the default periods 5 and 20:
\* throws below 20 rows; the comparisons of the averages, of the price
\* change in percent and of the turnover in percent are cross-multiplied.
calculateVAO(d, totalShares) ==
    IF Len(d) < 20
    THEN [threw |-> TRUE, score |-> 0, signal |-> ""]
    ELSE
    LET volumes  == [j \in 1..Len(d) |-> d[j].volume]
        sum5     == sumOfCloses(volumes, 5)
        sum20    == sumOfCloses(volumes, 20)
        today    == d[1]
        change   == today.close - d[2].close
        hasPrev  == d[2].close > 0
        turnover == totalShares > 0
        score ==
              (IF sum5 > 0 /\ today.volume * 10 > sum5 * 3 THEN 25 ELSE 0)
            + (IF sum20 > 0 /\ today.volume * 10 > sum20 THEN 25 ELSE 0)
            + (IF hasPrev /\ change * 100 > 3 * d[2].close THEN 15 ELSE 0)
            + (IF hasPrev /\ change * 100 > 5 * d[2].close THEN 15 ELSE 0)
            + (IF turnover /\ today.volume * 100 > 5 * totalShares THEN 10 ELSE 0)
            + (IF turnover /\ today.volume * 100 > 10 * totalShares THEN 10 ELSE 0)
    IN  [threw |-> FALSE, score |-> score,
         signal |-> IF score >= 70 THEN "STRONG"
                    ELSE IF score >= 50 THEN "MODERATE" ELSE "WEAK"]

\* A signal strength with 40 points for a rising close.
calculateMTMGenerous(d) ==
    IF Len(d) < 15
    THEN [threw |-> TRUE, mtm |-> 0, mtmmaSum |-> 0, direction |-> "",
          signalStrength |-> 0]
    ELSE
    LET mtmSeries == [j \in 1..5 |-> d[j].close - d[j + 10].close]
        mtm       == mtmSeries[1]
        mtmmaSum  == sumOfCloses(mtmSeries, 5)
    IN  [threw |-> FALSE, mtm |-> mtm, mtmmaSum |-> mtmmaSum,
         direction |-> IF 5 * mtm > mtmmaSum THEN "ACCELERATING"
                       ELSE "DECELERATING",
         signalStrength |->
              (IF mtm > 0 /\ mtmmaSum > 0 THEN 40 ELSE 0)
            + (IF 5 * mtm > mtmmaSum THEN 30 ELSE 0)
            + (IF d[1].close > d[2].close THEN 40 ELSE 0)]

\* calculateMTM(data, { period: 10, maPeriod: 5 }): mtm in hundredths, and
\* mtmmaSum = 5 * mtmma.
calculateMTM(d) ==
    IF Len(d) < 15
    THEN [threw |-> TRUE, mtm |-> 0, mtmmaSum |-> 0, direction |-> "",
          signalStrength |-> 0]
    ELSE
    LET mtmSeries == [j \in 1..5 |-> d[j].close - d[j + 10].close]
        mtm       == mtmSeries[1]
        mtmmaSum  == sumOfCloses(mtmSeries, 5)
    IN  [threw |-> FALSE, mtm |-> mtm, mtmmaSum |-> mtmmaSum,
         direction |-> IF 5 * mtm > mtmmaSum THEN "ACCELERATING"
                       ELSE "DECELERATING",
         signalStrength |->
              (IF mtm > 0 /\ mtmmaSum > 0 THEN 40 ELSE 0)
            + (IF 5 * mtm > mtmmaSum THEN 30 ELSE 0)
            + (IF d[1].close > d[2].close THEN 30 ELSE 0)]

\* A trigger that any two of the three conditions set off.
evaluateEntrySignalAnyTwo(d, mtm, ma10, ma20) ==
    LET today == d[1]
        sum5  == sumOfCloses([j \in 1..Len(d) |-> d[j].volume], 5)
        seen(j) == IF d[j].high # 0 THEN d[j].high ELSE d[j].close
        condA == /\ \A j \in 2..Min(21, Len(d)) : today.close > seen(j)
                 /\ today.volume * 25 > sum5 * 6
        condB == /\ today.close > ma10
                 /\ mtm.mtm > 0 /\ mtm.direction = "ACCELERATING"
        near  == /\ ma20 # 0
                 /\ 100 * (today.close - ma20) < 3 * ma20
                 /\ 100 * (ma20 - today.close) < 3 * ma20
        condC == /\ near
                 /\ today.close > today.open /\ d[2].close < d[2].open
        triggered == (condA /\ condB) \/ (condB /\ condC) \/ (condA /\ condC)
    IN  [triggered |-> triggered, A |-> condA, B |-> condB, C |-> condC,
         type |-> IF triggered THEN (IF condA THEN "BREAKOUT" ELSE "PULLBACK_BOUNCE")
                  ELSE "NONE"]

\* _evaluateEntrySignal(data, vao, mtm, ma): ma10 and ma20 are the value
\* fields of ma.ma10 and ma.ma20, which calculateMASystem always returns.
\* recentHigh is the highest of the 20 rows before today; the volume test
\* today.volume > avgVolume5 * 1.2 is cross-multiplied.
evaluateEntrySignal(d, mtm, ma10, ma20) ==
    LET today == d[1]
        sum5  == sumOfCloses([j \in 1..Len(d) |-> d[j].volume], 5)
        seen(j) == IF d[j].high # 0 THEN d[j].high ELSE d[j].close
        condA == /\ \A j \in 2..Min(21, Len(d)) : today.close > seen(j)
                 /\ today.volume * 25 > sum5 * 6
        condB == /\ today.close > ma10
                 /\ mtm.mtm > 0 /\ mtm.direction = "ACCELERATING"
        near  == /\ ma20 # 0
                 /\ 100 * (today.close - ma20) < 3 * ma20
                 /\ 100 * (ma20 - today.close) < 3 * ma20
        condC == /\ near
                 /\ today.close > today.open /\ d[2].close < d[2].open
        triggered == (condA /\ condB) \/ (condB /\ condC)
    IN  [triggered |-> triggered, A |-> condA, B |-> condB, C |-> condC,
         type |-> IF triggered THEN (IF condA THEN "BREAKOUT" ELSE "PULLBACK_BOUNCE")
                  ELSE "NONE"]

\* scoreTechnical(priceData, { totalShares }): an error result with score 0
\* below 60 rows (so no indicator throws); otherwise VAO 35%, MTM 30% and
\* the MA system 35%.  ma20.deviation is in hundredths of a percent, taken
\* against the unrounded mean.  For every value the three parts can take,
\* the weighted sum in doubles rounds to the same integer as the exact sum.
scoreTechnicalData(d, totalShares) ==
    IF Len(d) < 60
    THEN [computed |-> TRUE, error |-> TRUE, score |-> 0]
    ELSE
    LET closes == [j \in 1..Len(d) |-> d[j].close]
        vao    == calculateVAO(d, totalShares)
        mtm    == calculateMTM(d)
        ma     == calculateMASystem(closes)
        sum20  == sumOfCloses(closes, 20)
        aboveMA20 == closes[1] >= ma.ma20
        deviation == IF sum20 > 0
                     THEN RoundDiv((20 * closes[1] - sum20) * 10000, sum20)
                     ELSE 0
        maScore ==
              (IF ma.alignment = "BULLISH" THEN 50
               ELSE IF ma.alignment = "MIXED" THEN 25 ELSE 0)
            + (IF aboveMA20 THEN 30 ELSE 0)
            + (IF deviation <= 300 /\ -deviation <= 300 THEN 20 ELSE 0)
        score == RoundDiv(vao.score * 35 + mtm.signalStrength * 30
                          + maScore * 35, 100)
    IN  [computed |-> TRUE, error |-> FALSE,
         score |-> Min(100, Max(0, score)),
         vao |-> vao, mtm |-> mtm, alignment |-> ma.alignment,
         entrySignal |-> evaluateEntrySignal(d, mtm, ma.ma10, ma.ma20)]

\* scoreTechnical, and calculateVAO and calculateMTM called on the rows
\* directly (below 60 rows scoreTechnical does not call them).
TechInit ==
    /\ technicalData \in TechInputs
    /\ technicalResult = NotComputed
    /\ CoreIdle /\ ExtIdleExcept("tech")

ScorePrices ==
    /\ ~technicalResult.computed
    /\ technicalResult' =
          [computed  |-> TRUE,
           technical |-> scoreTechnicalData(technicalData.data,
                                            technicalData.totalShares),
           vao       |-> calculateVAO(technicalData.data,
                                      technicalData.totalShares),
           mtm       |-> calculateMTM(technicalData.data)]
    /\ UNCHANGED technicalData
    /\ UNCHANGED <<btVars, cmpVars, ddVars, scVars>>
    /\ ExtUnchangedExcept("tech")

\* The scorers together: one of them is given inputs of its own and is
\* called on them.  The others hold no price rows, no flow rows, no
\* snapshot and the dimensions <<0, 0, 0>>.
ScorersInit == TechInit \/ InstInit \/ FundInit \/ CmpInit

ScorersNext ==
    LET noRows     == technicalData.data = <<>>
        noFlows    == institutionalData = <<>>
        noSnapshot == ~fundamentalData.present
        noDims     == dims = <<0, 0, 0>>
    IN  \/ ~noRows /\ ScorePrices
        \/ noRows /\ noSnapshot /\ noDims /\ ScoreFlows
        \/ noRows /\ noFlows /\ noDims /\ ScoreSnapshot
        \/ noRows /\ noFlows /\ noSnapshot /\ Compose

SpecScorers == ScorersInit /\ [][ScorersNext]_vars

--------------------------------------------------------------------------
(* Properties of the technical scorer and of the scorers together *)

\* C21: the entry signal is triggered iff B holds with A or with C; its
\* type is BREAKOUT when triggered with A, PULLBACK_BOUNCE when triggered
\* without A, and NONE exactly when it is not triggered; the flags exposed
\* are those the trigger was computed from.
C21_EntrySignal ==
    (technicalResult.computed /\ ~technicalResult.technical.error) =>
        LET es == technicalResult.technical.entrySignal
        IN  /\ es.triggered <=> (es.B /\ (es.A \/ es.C))
            /\ es.triggered <=> ((es.A /\ es.B) \/ (es.B /\ es.C))
            /\ es.type = "BREAKOUT" <=> (es.triggered /\ es.A)
            /\ es.type = "PULLBACK_BOUNCE" <=> (es.triggered /\ ~es.A)
            /\ es.type = "NONE" <=> ~es.triggered

\* A pullback bounce: triggered by B and C without A.
C21_Witness ==
    /\ technicalResult.computed /\ ~technicalResult.technical.error
    /\ technicalResult.technical.entrySignal.type = "PULLBACK_BOUNCE"
    /\ technicalResult.technical.entrySignal.C
    /\ ~technicalResult.technical.entrySignal.A

\* A breakout, and a row set on which A and C hold without B: no trigger.
C21_WitnessBreakout ==
    /\ technicalResult.computed /\ ~technicalResult.technical.error
    /\ technicalResult.technical.entrySignal.type = "BREAKOUT"

C21_WitnessNoneWithoutB ==
    /\ technicalResult.computed /\ ~technicalResult.technical.error
    /\ technicalResult.technical.entrySignal.type = "NONE"
    /\ technicalResult.technical.entrySignal.A
    /\ ~technicalResult.technical.entrySignal.B

\* The points of the VAO conditions as they are stated, on the rows passed
\* in: the volumes of the n most recent rows are added up here.
C22_Points ==
    LET d == technicalData.data
        shares == technicalData.totalShares
        vol[n \in 0..20] == IF n = 0 THEN 0 ELSE vol[n - 1] + d[n].volume
        \* today.volume > ratio * (vol[n] / n), with ratio = num / 2
        above(num, n) == 2 * n * d[1].volume > num * vol[n]
        \* (today.close - yesterday.close) / yesterday.close > pct / 100
        rose(pct) == 100 * (d[1].close - d[2].close) > pct * d[2].close
        \* today.volume / totalShares > pct / 100
        turned(pct) == shares > 0 /\ 100 * d[1].volume > pct * shares
    IN  (IF above(3, 5) THEN 25 ELSE 0) + (IF above(4, 20) THEN 25 ELSE 0)
        + (IF rose(3) THEN 15 ELSE 0) + (IF rose(5) THEN 15 ELSE 0)
        + (IF turned(5) THEN 10 ELSE 0) + (IF turned(10) THEN 10 ELSE 0)

C22_WitnessModerate ==
    /\ technicalResult.computed /\ ~technicalResult.vao.threw
    /\ technicalResult.vao.signal = "MODERATE"
    /\ technicalData.totalShares = 0

\* C23: every score the scorers produce lies in [0,100]: the VAO score, the
\* MTM signal strength and the technical score of a price series, the
\* institutional score of a flow history, the fundamental score of a
\* snapshot and the totalScore of three dimension scores.
C23_ScoresInRange ==
    /\ technicalResult.computed =>
          /\ technicalResult.technical.score \in 0..100
          /\ technicalResult.vao.score \in 0..100
          /\ technicalResult.mtm.signalStrength \in 0..100
    /\ institutionalResult.computed => institutionalResult.score \in 0..100
    /\ fundamentalResult.computed => fundamentalResult.score \in 0..100
    /\ composite # NoComposite => composite.totalScore \in 0..100

\* A series of 60 rows on which the VAO score and the MTM signal strength
\* both reach 100.
C23_Witness ==
    /\ technicalResult.computed /\ ~technicalResult.technical.error
    /\ Len(technicalData.data) >= 60
    /\ technicalResult.vao.score = 100
    /\ technicalResult.mtm.signalStrength = 100
    /\ technicalResult.technical.score > 90

\* Each of the other scorers at the ends of the range.
C23_WitnessOthers ==
    \/ institutionalResult.computed /\ institutionalResult.score = 100
    \/ fundamentalResult.computed /\ fundamentalResult.score < 25
    \/ composite # NoComposite /\ composite.totalScore = 100

--------------------------------------------------------------------------
(* AdvancedAlertEngine.scan: the alerts of the three scanners for every
   symbol, sorted by severity *)

\* The longest list of symbols scanned.
MaxAlertSymbols == 2

\* daily_prices of one symbol, most recent first, in hundredths: no rows,
\* or 60 rows that closed at 100.00 on a volume of 900 but for today's.
AlertPrices ==
    { <<>> } \cup
    { [j \in 1..60 |-> IF j = 1 THEN [close |-> today[1], open |-> today[1],
                                      high |-> 0, volume |-> today[2]]
                       ELSE [close |-> 10000, open |-> 10000, high |-> 0,
                             volume |-> 900]] :
        today \in { <<9400, 3000>>, <<10600, 900>>, <<10600, 3000>> } }

\* institutional_trades of one symbol, most recent first: no rows, or three
\* rows with the same flows, the margin balance 1000 before today.
AlertFlows ==
    { <<>> } \cup
    { [j \in 1..3 |-> FlowRow(today[1], 150, 1,
                              IF j = 1 THEN today[2] ELSE 1000, 100)] :
        today \in { <<600, 1000>>, <<600, 2000>>, <<-100, 2000>> } }

\* What the database holds for one symbol; buy_price = 0 is no row in
\* positions.
AlertRecords ==
    [prices : AlertPrices, flows : AlertFlows, buy_price : {0, 11000}]

AlertInputs ==
    [symbols : UNION { [1..n -> AlertRecords] : n \in 0..MaxAlertSymbols },
     includePositionAlerts : BOOLEAN]

Alert(type, symbol, severity) ==
    [type |-> type, symbol |-> symbol, severity |-> severity]

\* The alerts a scanner pushes, in the order of its tests.
Pushed(tests) ==
    LET upTo[j \in 0..Len(tests)] ==
            IF j = 0 THEN <<>>
            ELSE IF tests[j][1] THEN Append(upTo[j - 1], tests[j][2])
                 ELSE upTo[j - 1]
    IN  upTo[Len(tests)]

\* _scanTechnical(symbol) with config.vaoThreshold = 70: nothing below 60
\* rows; calculateVAO is called without totalShares.
scanTechnical(symbol, d) ==
    IF Len(d) < 60 THEN <<>>
    ELSE
    LET vao     == calculateVAO(d, 0)
        mtm     == calculateMTM(d)
        prevMtm == calculateMTM(Tail(d))
        ma      == calculateMASystem([j \in 1..Len(d) |-> d[j].close])
        aboveMA20 == d[1].close >= ma.ma20
        sum5    == sumOfCloses([j \in 1..Len(d) |-> d[j].volume], 5)
    IN  Pushed(<<
          <<vao.score >= 70, Alert("VAO_EXPLOSION", symbol, "WARNING")>>,
          <<Len(d) - 1 >= 15 /\ prevMtm.mtm <= 0 /\ mtm.mtm > 0,
            Alert("MTM_REVERSAL", symbol, "INFO")>>,
          <<aboveMA20 /\ Len(d) > 1
              /\ d[2].close < ma.ma20 /\ d[1].close >= ma.ma20,
            Alert("MA_BREAKOUT", symbol, "INFO")>>,
          \* dayChange < -4 && today.volume > avgVol5 * 1.5
          <<d[2].close > 0
              /\ 100 * (d[1].close - d[2].close) < -4 * d[2].close
              /\ d[1].volume * 10 > sum5 * 3,
            Alert("VOLUME_SPIKE_DOWN", symbol, "CRITICAL")>> >>)

\* _scanInstitutional(symbol) with config.foreignConsecutiveDays = 3 and
\* config.marginSurgeRate = 0.10: nothing below 3 rows.
scanInstitutional(symbol, d) ==
    IF Len(d) < 3 THEN <<>>
    ELSE
    LET latest == d[1]
        curr   == d[1].margin_balance
        prev   == d[2].margin_balance
    IN  Pushed(<<
          <<countConsecutive(d, "foreign_net") >= 3,
            Alert("FOREIGN_CONSECUTIVE_BUY", symbol, "WARNING")>>,
          <<latest.foreign_net > 0 /\ latest.trust_net > 0
              /\ latest.dealer_net > 0,
            Alert("INSTITUTIONAL_SYNC", symbol, "WARNING")>>,
          \* (curr - prev) / prev > 0.10
          <<prev > 0 /\ 10 * (curr - prev) > prev,
            Alert("MARGIN_SURGE", symbol, "CRITICAL")>> >>)

\* _scanPositionRisk(symbol) with config.stopLossRate = 0.07: nothing
\* without a position or without a latest price row.
scanPositionRisk(symbol, rec) ==
    IF rec.buy_price = 0 \/ rec.prices = <<>> THEN <<>>
    ELSE
    LET d      == rec.prices
        latest == d[1]
        sum20  == sumOfCloses([j \in 1..Len(d) |-> d[j].close], 20)
    IN  Pushed(<<
          \* (latest.close - buyPrice) / buyPrice <= -0.07
          <<100 * (latest.close - rec.buy_price) <= -7 * rec.buy_price,
            Alert("STOP_LOSS", symbol, "CRITICAL")>>,
          <<Len(d) >= 20 /\ 20 * latest.close < sum20
              /\ 20 * d[2].close >= sum20,
            Alert("MA_BREAKDOWN", symbol, "WARNING")>> >>)

\* severityOrder[a.severity] || 9 with severityOrder =
\* { CRITICAL: 0, WARNING: 1, INFO: 2 }: || takes 9 for undefined and for 0.
severityKey(severity) ==
    LET looked == CASE severity = "CRITICAL" -> 0
                    [] severity = "WARNING"  -> 1
                    [] severity = "INFO"     -> 2
                    [] OTHER                 -> -1
    IN  IF looked = -1 \/ looked = 0 THEN 9 ELSE looked

\* alerts.sort((a, b) => key(a) - key(b)): Array.prototype.sort is stable.
sortBySeverity(s) ==
    LET Before(n) == {m \in 1..Len(s) :
                        \/ severityKey(s[m].severity) < severityKey(s[n].severity)
                        \/ /\ severityKey(s[m].severity) = severityKey(s[n].severity)
                           /\ m < n}
    IN  [p \in 1..Len(s) |-> s[CHOOSE n \in 1..Len(s) : Cardinality(Before(n)) = p - 1]]

\* The alerts pushed for the first count symbols, before the sort.
collected(input, count) ==
    LET upTo[j \in 0..count] ==
            IF j = 0 THEN <<>>
            ELSE upTo[j - 1]
                 \o scanTechnical(j, input.symbols[j].prices)
                 \o scanInstitutional(j, input.symbols[j].flows)
                 \o (IF input.includePositionAlerts
                     THEN scanPositionRisk(j, input.symbols[j])
                     ELSE <<>>)
    IN  upTo[count]

\* scan(symbols, options)
scan(input) == sortBySeverity(collected(input, Len(input.symbols)))

AlertInit ==
    /\ alertInput \in AlertInputs
    /\ alertResult = NotComputed
    /\ CoreIdle /\ ExtIdleExcept("alert")

Scan ==
    /\ ~alertResult.computed
    /\ alertResult' = [computed |-> TRUE, list |-> scan(alertInput)]
    /\ UNCHANGED alertInput
    /\ UNCHANGED <<btVars, cmpVars, ddVars, scVars>>
    /\ ExtUnchangedExcept("alert")

SpecAlerts == AlertInit /\ [][Scan]_vars

--------------------------------------------------------------------------
(* Properties of AdvancedAlertEngine.scan *)

\* C25: scan returns its alerts ordered by severity: every CRITICAL alert
\* comes before every WARNING alert and every WARNING alert before every
\* INFO alert.
C25_SeverityOrder ==
    alertResult.computed =>
        LET list == alertResult.list
            rank(a) == CASE a.severity = "CRITICAL" -> 0
                         [] a.severity = "WARNING"  -> 1
                         [] OTHER                   -> 2
        IN  \A m, n \in 1..Len(list) : rank(list[m]) < rank(list[n]) => m < n

\* What scan does: WARNING alerts come first, then INFO alerts, then the
\* CRITICAL alerts, each group in the order the alerts were pushed.
C25_CriticalLast ==
    alertResult.computed =>
        LET list == alertResult.list
            pushed == collected(alertInput, Len(alertInput.symbols))
            only(s, severity) == SelectSeq(s, LAMBDA a : a.severity = severity)
        IN  list = only(pushed, "WARNING") \o only(pushed, "INFO")
                     \o only(pushed, "CRITICAL")

\* A scan that returns alerts of all three severities.
C25_AllSeverities ==
    /\ alertResult.computed
    /\ \A severity \in {"CRITICAL", "WARNING", "INFO"} :
          \E n \in 1..Len(alertResult.list) :
              alertResult.list[n].severity = severity

--------------------------------------------------------------------------
(* TWSERealtimeCrawler: fetchStock and fetchBatch calls pending together on
   one crawler; each goes through _fetchWithRetry, _applyRateLimit, _sleep
   and _httpGet *)

\* The number of calls made on the crawler.
NumCalls == 3

\* Time passes in steps of TickMs, from StartTime up to MaxTime: the first
\* Date.now() the crawler sees is far above the lastRequestTime = 0 the
\* constructor sets, and StartTime stands for it.
TickMs == 334
StartTime == 1002
MaxTime == 3340

\* The redirects followed in one call.
MaxRedirects == 1

\* options.rateLimitMs ?? 334 and options.maxRetries ?? 3
DefaultRateLimitMs == 334
DefaultMaxRetries == 3

CrawlerConfigs ==
    { [maxRetries |-> DefaultMaxRetries, rateLimitMs |-> DefaultRateLimitMs],
      [maxRetries |-> 1, rateLimitMs |-> DefaultRateLimitMs] }

\* A call that was not made yet; a call that is over differs in pc only.
NewCall(method) ==
    [method |-> method, pc |-> "new", attempt |-> 0, wakeAt |-> 0,
     redirects |-> 0]

\* _calculateBackoff(attempt): Math.min(2^attempt * 1000 + jitter, 10000),
\* the jitter Math.random() * 500 being any time below 500 ms.
calculateBackoff(attempt) ==
    { Min((2 ^ attempt) * 1000 + jitter, 10000) : jitter \in {0, TickMs} }

\* An HTTP request leaves at the time clock.
RequestStarts ==
    /\ lastStart' = clock
    /\ minGap' = IF lastStart = -1 THEN minGap
                 ELSE IF minGap = -1
                 THEN Min(clock - lastStart, crawlerConfig.rateLimitMs)
                 ELSE Min(minGap, clock - lastStart)

\* this.lastRequestTime = Date.now(); this.requestCount++; then, back in
\* _fetchWithRetry, _httpGet(url) sends the request.
StampAndSend(p) ==
    /\ lastRequestTime' = clock
    /\ requestCount' = requestCount + 1
    /\ RequestStarts
    /\ minAttemptGap' =
          IF requestCount = 0 THEN minAttemptGap
          ELSE IF minAttemptGap = -1
          THEN Min(clock - lastRequestTime, crawlerConfig.rateLimitMs)
          ELSE Min(minAttemptGap, clock - lastRequestTime)

\* _applyRateLimit up to its first await, for the call p at its attempt
\* number attempt: it reads the clock and lastRequestTime and either sleeps
\* for the rest of the rate limit or goes on at once.
applyRateLimit(p, attempt) ==
    LET timeSinceLastRequest == clock - lastRequestTime
    IN  IF timeSinceLastRequest < crawlerConfig.rateLimitMs
        THEN /\ calls' = [calls EXCEPT
                    ![p].pc = "rateSleep", ![p].attempt = attempt,
                    ![p].wakeAt = clock + (crawlerConfig.rateLimitMs
                                             - timeSinceLastRequest)]
             /\ UNCHANGED <<lastRequestTime, requestCount, lastStart, minGap,
                            minAttemptGap>>
        ELSE /\ calls' = [calls EXCEPT ![p].pc = "http", ![p].attempt = attempt,
                                       ![p].wakeAt = 0]
             /\ StampAndSend(p)

\* fetchStock(code) or fetchBatch(codes) is called: the URL is built and
\* _fetchWithRetry starts its first attempt.
Call(p) ==
    /\ calls[p].pc = "new"
    /\ applyRateLimit(p, 1)
    /\ UNCHANGED <<crawlerConfig, clock>>

\* The timer of _sleep(waitTime) fires, at or after its time: the rest of
\* _applyRateLimit runs and the request is sent.
WakeAndSend(p) ==
    /\ calls[p].pc = "rateSleep" /\ clock >= calls[p].wakeAt
    /\ calls' = [calls EXCEPT ![p].pc = "http", ![p].wakeAt = 0]
    /\ StampAndSend(p)
    /\ UNCHANGED <<crawlerConfig, clock>>

\* The response is a 2xx: _fetchWithRetry returns it.
Succeed(p) ==
    /\ calls[p].pc = "http"
    /\ calls' = [calls EXCEPT ![p] = [NewCall(calls[p].method) EXCEPT !.pc = "returned"]]
    /\ UNCHANGED <<crawlerConfig, clock, lastRequestTime, requestCount,
                   lastStart, minGap, minAttemptGap>>

\* The response is a 3xx with a location: _httpGet calls itself on it.
Redirect(p) ==
    /\ calls[p].pc = "http" /\ calls[p].redirects < MaxRedirects
    /\ calls' = [calls EXCEPT ![p].redirects = @ + 1]
    /\ RequestStarts
    /\ UNCHANGED <<crawlerConfig, clock, lastRequestTime, requestCount,
                   minAttemptGap>>

\* The request fails (error, timeout, another status): _fetchWithRetry
\* sleeps for the backoff before the next attempt, or throws after the
\* last one, and fetchStock returns null (fetchBatch []).
Fail(p) ==
    /\ calls[p].pc = "http"
    /\ IF calls[p].attempt < crawlerConfig.maxRetries
       THEN \E delay \in calculateBackoff(calls[p].attempt) :
                calls' = [calls EXCEPT ![p].pc = "backoff",
                                       ![p].wakeAt = clock + delay,
                                       ![p].redirects = 0]
       ELSE calls' = [calls EXCEPT
                         ![p] = [NewCall(calls[p].method) EXCEPT !.pc = "gaveUp"]]
    /\ UNCHANGED <<crawlerConfig, clock, lastRequestTime, requestCount,
                   lastStart, minGap, minAttemptGap>>

\* The backoff timer fires: the next attempt enters _applyRateLimit.
Retry(p) ==
    /\ calls[p].pc = "backoff" /\ clock >= calls[p].wakeAt
    /\ applyRateLimit(p, calls[p].attempt + 1)
    /\ UNCHANGED <<crawlerConfig, clock>>

\* Time passes, once the timers that are due have fired.
Tick ==
    /\ calls # <<>> /\ clock + TickMs <= MaxTime
    /\ \A p \in 1..NumCalls :
          calls[p].pc \in {"rateSleep", "backoff"} => clock < calls[p].wakeAt
    /\ clock' = clock + TickMs
    /\ UNCHANGED <<crawlerConfig, lastRequestTime, requestCount, calls,
                   lastStart, minGap, minAttemptGap>>

CrawlInit ==
    /\ crawlerConfig \in CrawlerConfigs
    /\ clock = StartTime
    /\ lastRequestTime = 0
    /\ requestCount = 0
    /\ calls = [p \in 1..NumCalls |->
                   NewCall(IF p % 2 = 1 THEN "fetchStock" ELSE "fetchBatch")]
    /\ lastStart = -1
    /\ minGap = -1
    /\ minAttemptGap = -1
    /\ CoreIdle /\ ExtIdleExcept("crawl")

CrawlStep(p) ==
    \/ Call(p) \/ WakeAndSend(p) \/ Succeed(p) \/ Redirect(p)
    \/ Fail(p) \/ Retry(p)

CrawlNext ==
    /\ \/ \E p \in 1..NumCalls : CrawlStep(p)
       \/ Tick
    /\ UNCHANGED <<btVars, cmpVars, ddVars, scVars>>
    /\ ExtUnchangedExcept("crawl")

SpecCrawler == CrawlInit /\ [][CrawlNext]_vars

--------------------------------------------------------------------------
(* Properties of the crawler's rate limit *)

\* C26: the crawler never starts two HTTP requests less than rateLimitMs
\* apart, whatever the interleaving of its fetchStock and fetchBatch calls,
\* retries included.  Stated for the requests that _fetchWithRetry sends,
\* each after its own _applyRateLimit.
C26_RequestsApart ==
    minAttemptGap # -1 => minAttemptGap >= crawlerConfig.rateLimitMs

\* The same with the requests counted that _httpGet sends when it follows
\* a redirect.
C26_RedirectsApart ==
    minGap # -1 => minGap >= crawlerConfig.rateLimitMs

\* What the rate limit does give: a call that enters _applyRateLimit
\* without sleeping sends its request at least rateLimitMs after the
\* request stamped before it.
C26_UnsleptApart ==
    [][\A p \in 1..NumCalls :
          (calls[p].pc \in {"new", "backoff"} /\ calls'[p].pc = "http"
             /\ requestCount > 0)
          => clock - lastRequestTime >= crawlerConfig.rateLimitMs]_vars

==========================================================================
